---- MODULE Spec2Model ----
(***************************************************************************)
(* Identified maps (hoshmap / cdict): FrozenIdict, LazyiVal, StrictiVal,   *)
(* and the cache chain.  A heap of maps, lazy nodes, shared result dicts   *)
(* and cache tiers, with one action per operation of the library.          *)
(***************************************************************************)
EXTENDS Integers, Sequences, FiniteSets, TLC

VARIABLES maps, nodes, slots, tiers, calls, scans, last, threads, idicts

vars == <<maps, nodes, slots, tiers, calls, scans, last, threads, idicts>>

(***************************************************************************)
(* Bounds of the model.                                                    *)
(***************************************************************************)
MaxMaps == 3
MaxNodes == 2
MaxReads == 2
MaxThreads == 2

MaxLen == 3

(***************************************************************************)
(* The identity primitive (package hosh, external).  An element is a       *)
(* triple of cells modulo P, multiplied as upper unitriangular matrices    *)
(* (not commutative) and added cell by cell (commutative).                 *)
(***************************************************************************)
P == 101

HUnit == <<0, 0, 0>>

HMul(g, h) == <<(g[1] + h[1]) % P, (g[2] + h[2]) % P, (g[3] + h[3] + g[1] * h[2]) % P>>

HAdd(g, h) == <<(g[1] + h[1]) % P, (g[2] + h[2]) % P, (g[3] + h[3]) % P>>

HPow(h, e) == <<(e * h[1]) % P, (e * h[2]) % P, (e * h[3] + ((e * (e - 1)) \div 2) * h[1] * h[2]) % P>>

\* Hosh(blob): the element of a blob, the blob standing as a number.
HOfBytes(n) == <<(3 * n + 1) % P, (5 * n + 2) % P, (7 * n + 3) % P>>

\* hosh.id: the text of an element, one text per element.
HId(h) == (h[1] * P + h[2]) * P + h[3]

\* hosh[i:n]: output i of n; the n slices of h multiply back to h.
SliceExp(i, n) == IF i < n - 1 THEN i + 2 ELSE (P + 1 - ((((n - 1) * (n + 2)) \div 2) % P)) % P

HSlice(h, i, n) == IF n = 1 THEN h ELSE HPow(h, SliceExp(i, n))

(***************************************************************************)
(* Contents: what a value holds.  None, integers, lists and mappings of    *)
(* contents, a nested map FrozenIdict(z=n), the {"_ids": ...} note that    *)
(* strict caching writes, and an id text.                                  *)
(***************************************************************************)
NoneC == [t |-> "none", n |-> 0, items |-> <<>>]

IntC(v) == [t |-> "int", n |-> v, items |-> <<>>]

ListC(s) == [t |-> "list", n |-> 0, items |-> s]

DictC(s) == [t |-> "dict", n |-> 0, items |-> s]

TupleC(s) == [t |-> "tuple", n |-> 0, items |-> s]

MapC(v) == [t |-> "map", n |-> v, items |-> <<>>]

IdsC(h) == [t |-> "ids", n |-> HId(h), items |-> <<>>]

RECURSIVE ContentCode(_)
\* pickle.dumps(content) standing as a number.
ContentCode(c) ==
    CASE c.t = "none" -> 0
      [] c.t = "int" -> 1 + c.n
      [] c.t = "map" -> 20 + c.n
      [] c.t = "ids" -> 30 + c.n
      [] OTHER ->
            LET RECURSIVE Poly(_)
                Poly(k) == IF k = 0 THEN (IF c.t = "list" THEN 40 ELSE IF c.t = "dict" THEN 41 ELSE 42)
                           ELSE 7 * Poly(k - 1) + ContentCode(c.items[k])
            IN Poly(Len(c.items))

ContentHosh(c) == HOfBytes(ContentCode(c))

(***************************************************************************)
(* Keys.  Strings; the ones that start with an underscore are listed.      *)
(***************************************************************************)
Underscored == {"_m", "_id", "_ids"}

StartsWithUnderscore(k) == k \in Underscored

Reserved == {"_id", "_ids"}

KeyCode(k) ==
    CASE k = "a" -> 50 [] k = "b" -> 51 [] k = "x" -> 52 [] k = "y" -> 53
      [] k = "z" -> 54 [] k = "w" -> 55 [] k = "_m" -> 56 [] k = "_id" -> 57
      [] k = "_ids" -> 58 [] OTHER -> 59

\* k.encode() as the right factor of a product: Hosh(blob).
KeyHosh(k) == HOfBytes(KeyCode(k))

(***************************************************************************)
(* Values.  A strict value holds its content; a lazy value is a reference  *)
(* to a LazyiVal object of the heap.                                       *)
(***************************************************************************)
StrictiVal(c, h) == [lazy |-> FALSE, c |-> c, hosh |-> h, node |-> 0]

StrictOf(c) == StrictiVal(c, ContentHosh(c))

LazyRef(j, h) == [lazy |-> TRUE, c |-> NoneC, hosh |-> h, node |-> j]

\* What a caller hands to the constructor under a key: a plain content, an
\* iVal, or an Idict (mutable wrapper) around FrozenIdict(z=n).
Plain(c) == [kind |-> "plain", c |-> c, v |-> StrictOf(NoneC)]

IVal(v) == [kind |-> "ival", c |-> NoneC, v |-> v]

FoldStepMul(h, vh, k) == HMul(h, HMul(vh, KeyHosh(k)))

\* self.hosh += self.data[k].hosh * k.encode()
FoldStep(h, vh, k) == HAdd(h, HMul(vh, KeyHosh(k)))

NestedHosh(n) == FoldStep(HUnit, ContentHosh(IntC(n)), "z")

IdictOf(n) == [kind |-> "idict", c |-> MapC(n), v |-> StrictiVal(MapC(n), NestedHosh(n))]

Entry(k, raw) == [k |-> k, raw |-> raw]

KeysOf(es) == [j \in 1..Len(es) |-> es[j].k]

HasKey(es, k) == \E j \in 1..Len(es) : es[j].k = k

IndexOf(es, k) == CHOOSE j \in 1..Len(es) : es[j].k = k

\* dict[k] = raw: an existing key keeps its place, a new key goes last.
DictSet(es, k, raw) ==
    IF HasKey(es, k) THEN [es EXCEPT ![IndexOf(es, k)] = Entry(k, raw)]
    ELSE Append(es, Entry(k, raw))

RECURSIVE DictUpdate(_, _)
\* data.update(other)
DictUpdate(es, other) ==
    IF other = <<>> THEN es
    ELSE DictUpdate(DictSet(es, Head(other).k, Head(other).raw), Tail(other))

\* The wrapping of one entry by the constructor.
Wrap(raw) ==
    CASE raw.kind = "ival" -> raw.v
      [] raw.kind = "idict" -> StrictiVal(raw.c, raw.v.hosh)
      [] OTHER -> StrictOf(raw.c)

EmptyMap ==
    [keys |-> <<>>, vals |-> <<>>, hosh |-> HUnit, ids |-> <<>>, cached |-> FALSE, asdict |-> <<>>]

\* Whether the loop folds key k into the identity.
FoldsAll(k) == TRUE

Folds(k) == ~(StartsWithUnderscore(k) /\ k \notin Reserved)

RECURSIVE ConstructLoopFieldIds(_, _, _)
\* The loop recording the ids of the entries it folds only.
ConstructLoopFieldIds(data, j, acc) ==
    IF j > Len(data) THEN acc
    ELSE LET k == data[j].k
             v == Wrap(data[j].raw)
         IN ConstructLoopFieldIds(data, j + 1,
                [map |-> [keys |-> Append(acc.map.keys, k),
                          vals |-> Append(acc.map.vals, v),
                          hosh |-> IF Folds(k) THEN FoldStep(acc.map.hosh, v.hosh, k) ELSE acc.map.hosh,
                          ids |-> IF Folds(k) THEN Append(acc.map.ids, HId(v.hosh)) ELSE acc.map.ids,
                          cached |-> FALSE,
                          asdict |-> <<>>],
                 wrapped |-> acc.wrapped + (IF data[j].raw.kind = "ival" THEN 0 ELSE 1),
                 combined |-> acc.combined + (IF Folds(k) THEN 1 ELSE 0)])

RECURSIVE ConstructLoop(_, _, _)
\* for k, v in data.items(): wrap, fold, record the id.
ConstructLoop(data, j, acc) ==
    IF j > Len(data) THEN acc
    ELSE LET k == data[j].k
             v == Wrap(data[j].raw)
         IN ConstructLoop(data, j + 1,
                [map |-> [keys |-> Append(acc.map.keys, k),
                          vals |-> Append(acc.map.vals, v),
                          hosh |-> IF Folds(k) THEN FoldStep(acc.map.hosh, v.hosh, k) ELSE acc.map.hosh,
                          ids |-> Append(acc.map.ids, HId(v.hosh)),
                          cached |-> FALSE,
                          asdict |-> <<>>],
                 wrapped |-> acc.wrapped + (IF data[j].raw.kind = "ival" THEN 0 ELSE 1),
                 combined |-> acc.combined + (IF Folds(k) THEN 1 ELSE 0)])

\* if "_id" in data.keys() or "_ids" in data.keys(): raise
ReservedCheck(data) == HasKey(data, "_id") \/ HasKey(data, "_ids")

ConstructRun(data) == ConstructLoop(data, 1, [map |-> EmptyMap, wrapped |-> 0, combined |-> 0])

\* The constructor with the reserved-key test moved after the loop.
ConstructCheckLast(dictionary, kwargs) ==
    LET data == DictUpdate(dictionary, kwargs)
        run == ConstructRun(data)
    IN IF ReservedCheck(data)
       THEN [ok |-> FALSE, err |-> "ReservedKey", map |-> EmptyMap, wrapped |-> run.wrapped,
             combined |-> run.combined, data |-> data]
       ELSE [ok |-> TRUE, err |-> "", map |-> run.map, wrapped |-> run.wrapped,
             combined |-> run.combined, data |-> data]

\* FrozenIdict(_dictionary, **kwargs).  data is the caller's dictionary
\* after data.update(kwargs); wrapped and combined count the entries wrapped
\* in a StrictiVal and the identities folded before the constructor ended.
Construct(dictionary, kwargs) ==
    LET data == DictUpdate(dictionary, kwargs)
        run == ConstructRun(data)
    IN IF ReservedCheck(data)
       THEN [ok |-> FALSE, err |-> "ReservedKey", map |-> EmptyMap, wrapped |-> 0, combined |-> 0,
             data |-> data]
       ELSE [ok |-> TRUE, err |-> "", map |-> run.map, wrapped |-> run.wrapped,
             combined |-> run.combined, data |-> data]

RECURSIVE FromDictLoop(_, _, _, _)
\* for k, v in dictionary.items(): an iVal is taken as it is, unless ids
\* names its key; a content becomes StrictiVal(v, ids[k]).
FromDictLoop(dictionary, ids, j, data) ==
    IF j > Len(dictionary) THEN [ok |-> TRUE, err |-> "", data |-> data]
    ELSE LET k == dictionary[j].k
             raw == dictionary[j].raw
         IN IF raw.kind = "ival"
            THEN IF HasKey(ids, k) THEN [ok |-> FALSE, err |-> "Conflict", data |-> data]
                 ELSE FromDictLoop(dictionary, ids, j + 1, DictSet(data, k, raw))
            ELSE IF ~HasKey(ids, k) THEN [ok |-> FALSE, err |-> "KeyError", data |-> data]
            ELSE FromDictLoop(dictionary, ids, j + 1,
                              DictSet(data, k, IVal(StrictiVal(raw.c, ids[IndexOf(ids, k)].h))))

\* FrozenIdict.fromdict(dictionary, ids), ids a dict from key to identity
FromDict(dictionary, ids) ==
    LET r == FromDictLoop(dictionary, ids, 1, <<>>)
        made == Construct(r.data, <<>>)
    IN IF ~r.ok THEN [ok |-> FALSE, err |-> r.err, map |-> EmptyMap]
       ELSE [ok |-> made.ok, err |-> made.err, map |-> made.map]

MapId(m) == HId(m.hosh)

HasField(m, k) == \E j \in 1..Len(m.keys) : m.keys[j] = k

FieldIndex(m, k) == CHOOSE j \in 1..Len(m.keys) : m.keys[j] = k

ValOf(m, k) == m.vals[FieldIndex(m, k)]

IdOf(m, k) == m.ids[FieldIndex(m, k)]

\* self.data without "_id" and "_ids", as the entries of a dictionary.
DataOf(m) == [j \in 1..Len(m.keys) |-> Entry(m.keys[j], IVal(m.vals[j]))]


(***************************************************************************)
(* Bound functions.  Each takes the parameter x.                           *)
(***************************************************************************)
StrC(k) == [t |-> "str", n |-> KeyCode(k), items |-> <<>>]

FCode(f) ==
    CASE f = "square" -> 70 [] f = "none" -> 71 [] f = "zero" -> 72 [] f = "pair" -> 73
      [] f = "npair" -> 74 [] f = "dpair" -> 75 [] f = "mkmap" -> 76 [] f = "triple" -> 78
      [] f = "ttriple" -> 79 [] f = "cat" -> 80 [] OTHER -> 77

\* f2hosh(f)
F2Hosh(f) == HOfBytes(FCode(f))

HasArg(kw, name) == \E j \in 1..Len(kw) : kw[j].name = name

ArgOf(kw, name) == kw[CHOOSE j \in 1..Len(kw) : kw[j].name = name].c

\* self.f(**kwargs): raises on a wrong keyword or a content it cannot use.
Apply(f, kw) ==
    IF f = "cat"
    THEN IF Len(kw) = 2 /\ HasArg(kw, "x") /\ HasArg(kw, "y")
            /\ ArgOf(kw, "x").t = "int" /\ ArgOf(kw, "y").t = "int"
         THEN [ok |-> TRUE, val |-> IntC(10 * ArgOf(kw, "x").n + ArgOf(kw, "y").n)]
         ELSE [ok |-> FALSE, val |-> NoneC]
    ELSE IF ~(Len(kw) = 1 /\ HasArg(kw, "x")) \/ f = "boom" THEN [ok |-> FALSE, val |-> NoneC]
    ELSE LET a == ArgOf(kw, "x")
         IN CASE f = "none" -> [ok |-> TRUE, val |-> NoneC]
              [] f = "zero" -> [ok |-> TRUE, val |-> IntC(0)]
              [] a.t # "int" -> [ok |-> FALSE, val |-> NoneC]
              [] f = "square" -> [ok |-> TRUE, val |-> IntC(a.n * a.n)]
              [] f = "pair" -> [ok |-> TRUE, val |-> ListC(<<IntC(a.n + 1), IntC(a.n + 2)>>)]
              [] f = "npair" -> [ok |-> TRUE, val |-> ListC(<<NoneC, IntC(a.n)>>)]
              [] f = "dpair" -> [ok |-> TRUE, val |-> DictC(<<IntC(a.n + 3), IntC(a.n + 4)>>)]
              [] f = "mkmap" -> [ok |-> TRUE, val |-> MapC(a.n)]
              [] f = "triple" -> [ok |-> TRUE, val |-> ListC(<<IntC(a.n), IntC(a.n + 1), IntC(a.n + 2)>>)]
              [] f = "ttriple" -> [ok |-> TRUE, val |-> TupleC(<<IntC(a.n), IntC(a.n + 1), IntC(a.n + 2)>>)]
              [] OTHER -> [ok |-> FALSE, val |-> NoneC]

(***************************************************************************)
(* Shared result dicts and cache tiers.                                    *)
(***************************************************************************)
SlotHas(sl, id) == \E j \in 1..Len(sl) : sl[j].id = id

SlotGet(sl, id) == sl[CHOOSE j \in 1..Len(sl) : sl[j].id = id].val

\* results[id] = val
SlotSet(sl, id, val) ==
    IF SlotHas(sl, id) THEN [j \in 1..Len(sl) |-> IF sl[j].id = id THEN [id |-> id, val |-> val] ELSE sl[j]]
    ELSE Append(sl, [id |-> id, val |-> val])

TierHas(t, id) == \E e \in t : e.id = id

TierGet(t, id) == (CHOOSE e \in t : e.id = id).val

\* cache[id] = val
TierPut(t, id, val) == {e \in t : e.id # id} \cup {[id |-> id, val |-> val]}

(***************************************************************************)
(* LazyiVal.                                                               *)
(***************************************************************************)
RECURSIVE MulFrom(_, _, _)
MulFrom(acc, hs, k) == IF k > Len(hs) THEN acc ELSE MulFrom(HMul(acc, hs[k]), hs, k + 1)

\* reduce(operator.mul, chain(self.deps.values(), [self.fhosh]))
DepsProduct(deps, fhosh) ==
    LET hs == [k \in 1..Len(deps) |-> deps[k].v.hosh] \o <<fhosh>>
    IN MulFrom(hs[1], hs, 2)

\* LazyiVal.__init__: the object, before results[id] = None.
LazyiValBySlot(f, i, n, deps, slot, fhosh, hascaches, caches) ==
    [f |-> f, i |-> i, n |-> n, deps |-> deps, slot |-> slot, fhosh |-> fhosh,
     hosh |-> HSlice(HMul(DepsProduct(deps, fhosh), HOfBytes(slot)), i, n),
     hascaches |-> hascaches, caches |-> caches]

LazyiVal(f, i, n, deps, slot, fhosh, hascaches, caches) ==
    [f |-> f, i |-> i, n |-> n, deps |-> deps, slot |-> slot, fhosh |-> fhosh,
     hosh |-> HSlice(DepsProduct(deps, fhosh), i, n), hascaches |-> hascaches, caches |-> caches]

\* iVal.isevaluated: a strict value always is; a lazy one once results[id] is set.
IsEvaluated(nd, sl, v) ==
    ~v.lazy \/ SlotGet(sl[nd[v.node].slot], HId(v.hosh)) # NoneC


\* ival.value of a value that is evaluated: no effect.
ContentOf(nd, sl, v) == IF v.lazy THEN SlotGet(sl[nd[v.node].slot], HId(v.hosh)) ELSE v.c

(***************************************************************************)
(* The cache chain.                                                        *)
(***************************************************************************)
\* Cache objects outside the heap of tiers: one whose __contains__ raises
\* and one that answers True to __contains__ and whose __getitem__ raises.
RaisesOnContains == 3

RaisesOnGet == 4

RaisingTiers == {RaisesOnContains, RaisesOnGet}

\* An element of a chain that is itself a list of caches, as withcaches
\* appends one: `id in list` is False, `list[id] = val` raises TypeError.
\* withcaches appends at the end, so no hit follows such an element.
ListInChain == 5

HasList(caches) == \E j \in 1..Len(caches) : caches[j] = ListInChain

\* The caches of the chain before its first list.
BeforeList(caches) ==
    SubSeq(caches, 1, (CHOOSE j \in 1..Len(caches) :
                          caches[j] = ListInChain /\ \A q \in 1..(j - 1) : caches[q] # ListInChain) - 1)

RECURSIVE ScanFrom(_, _, _, _)
\* for cache in self.caches: if self.hosh.id in cache: val = cache[self.hosh.id].
\* Position of the hit, or 0, or -k when the test or the get of tier k raises.
ScanFrom(ts, caches, id, k) ==
    IF k > Len(caches) THEN 0
    ELSE IF caches[k] \in RaisingTiers THEN 0 - k
    ELSE IF caches[k] = ListInChain THEN ScanFrom(ts, caches, id, k + 1)
    ELSE IF TierHas(ts[caches[k]], id) THEN k
    ELSE ScanFrom(ts, caches, id, k + 1)

BackfillNone(ts, caches, hit, id, val) == ts

BackfillAll(ts, caches, hit, id, val) ==
    [t \in 1..Len(ts) |->
        IF \E j \in 1..Len(caches) : j # hit /\ caches[j] = t THEN TierPut(ts[t], id, val) ELSE ts[t]]

\* for outdated_cache in outdated_caches: outdated_cache[self.hosh.id] = val
Backfill(ts, caches, hit, id, val) ==
    [t \in 1..Len(ts) |->
        IF \E j \in 1..(hit - 1) : caches[j] = t THEN TierPut(ts[t], id, val) ELSE ts[t]]

\* FrozenIdict(z=n), the map a function may return.
NestedMap(n) == Construct(<<Entry("z", Plain(IntC(n)))>>, <<>>).map

\* One evaluated entry met by `>> [...]`: for cache in strict, write the map's
\* note and the entry, each only when its id is absent.
StrictWrite(t, m, id, val) ==
    LET t1 == IF TierHas(t, MapId(m)) THEN t ELSE TierPut(t, MapId(m), IdsC(m.hosh))
    IN IF TierHas(t1, id) THEN t1 ELSE TierPut(t1, id, val)

RECURSIVE AttachLoop(_, _, _, _, _, _)
\* for k, ival in self.entries(evaluate=False), up to the first entry that is
\* not evaluated: ival.withcaches(caches, self.id, self.ids) is a call with
\* three arguments of a method that takes one.
AttachLoop(nd, sl, ts, m, strict, k) ==
    IF k > Len(m.keys) THEN [ok |-> TRUE, ts |-> ts]
    ELSE IF ~IsEvaluated(nd, sl, m.vals[k]) THEN [ok |-> FALSE, ts |-> ts]
    ELSE AttachLoop(nd, sl,
            [t \in 1..Len(ts) |->
                IF \E j \in 1..Len(strict) : strict[j] = t
                THEN StrictWrite(ts[t], m, m.ids[k], ContentOf(nd, sl, m.vals[k]))
                ELSE ts[t]],
            m, strict, k + 1)

IsNested(c) == c.nested

\* FrozenIdict.__rshift__ with a list: other is a sequence of
\* [tier, nested], nested for a tier given as a one-element list.
AttachCachesOpByContent(nd, sl, ts, m, other) ==
    LET strictElems == SelectSeq(other, IsNested)
        strict == [j \in 1..Len(strictElems) |-> strictElems[j].tier]
        run == AttachLoop(nd, sl, ts, m, strict, 1)
    IN [ok |-> run.ok, ts |-> run.ts,
        map |-> IF run.ok
                THEN Construct([j \in 1..Len(m.keys) |->
                                   Entry(m.keys[j], Plain(ContentOf(nd, sl, m.vals[j])))], <<>>).map
                ELSE EmptyMap]

AttachCachesOp(nd, sl, ts, m, other) ==
    LET strictElems == SelectSeq(other, IsNested)
        strict == [j \in 1..Len(strictElems) |-> strictElems[j].tier]
        run == AttachLoop(nd, sl, ts, m, strict, 1)
    IN [ok |-> run.ok, ts |-> run.ts,
        map |-> IF run.ok THEN Construct(DataOf(m), <<>>).map ELSE EmptyMap]

(***************************************************************************)
(* LazyiVal.value                                                          *)
(***************************************************************************)
\* The function's return as the sequence of outputs.
NormalizeNoWrap(result, n) ==
    CASE result.t = "dict" -> [ok |-> TRUE, items |-> result.items]
      [] result.t = "list" /\ Len(result.items) # n -> [ok |-> FALSE, items |-> <<>>]
      [] result.t \in {"list", "tuple"} -> [ok |-> TRUE, items |-> result.items]
      [] OTHER -> [ok |-> n = 1, items |-> <<>>]

Normalize(result, n) ==
    CASE n = 1 -> [ok |-> TRUE, items |-> <<result>>]
      [] result.t = "dict" -> [ok |-> TRUE, items |-> result.items]
      [] result.t = "list" /\ Len(result.items) # n -> [ok |-> FALSE, items |-> <<>>]
      [] result.t \in {"list", "tuple"} -> [ok |-> TRUE, items |-> result.items]
      [] result.t = "map" -> [ok |-> TRUE, items |-> <<StrC("z"), StrC("_id"), StrC("_ids")>>]
      [] OTHER -> [ok |-> FALSE, items |-> <<>>]

\* The assignment pairing the result dict with the result from its end.
ZipAssignReversed(sl, items) ==
    [p \in 1..Len(sl) |->
        IF p <= Len(items) THEN [id |-> sl[p].id, val |-> items[Len(items) + 1 - p]] ELSE sl[p]]

\* for id, res in zip(self.results, result): self.results[id] = res
ZipAssign(sl, items) ==
    [p \in 1..Len(sl) |-> IF p <= Len(items) THEN [id |-> sl[p].id, val |-> items[p]] ELSE sl[p]]

\* One write of the store loop: a map goes through `res >> [[cache]]`.
StoreOne(nd, sl, ts, c, id, res) ==
    IF res.t = "map"
    THEN AttachCachesOp(nd, sl, ts, NestedMap(res.n), <<[tier |-> c, nested |-> TRUE]>>).ts
    ELSE [ts EXCEPT ![c] = TierPut(ts[c], id, res)]

RECURSIVE StoreLoop(_, _, _, _, _, _, _)
\* for id, res in self.results.items(): for cache in self.caches: ...
StoreLoop(nd, sl, ts, res, caches, p, q) ==
    IF p > Len(res) THEN ts
    ELSE IF q > Len(caches) THEN StoreLoop(nd, sl, ts, res, caches, p + 1, 1)
    ELSE StoreLoop(nd, sl, StoreOne(nd, sl, ts, caches[q], res[p].id, res[p].val), res, caches, p, q + 1)

\* len(split := field.split(":*")) == 2
IsExploded(field) == field \in {"xs:*x", "ys:*y"}

\* split[1]
ExplodedTarget(field) == IF field = "xs:*x" THEN "x" ELSE "y"

\* iter(value) succeeds.  Iterating a dict yields its keys, which a dict
\* content does not carry here: no dict is given as an exploded source.
IsIterable(c) == c.t \in {"list", "tuple"}

\* kwargs[target] = content
KwSet(kw, name, c) ==
    IF HasArg(kw, name)
    THEN [j \in 1..Len(kw) |-> IF kw[j].name = name THEN [name |-> name, c |-> c] ELSE kw[j]]
    ELSE Append(kw, [name |-> name, c |-> c])

\* except StopIteration: i not in [0, len(iterable_sources)] raises ValueError
StopsCleanly(i, nsources) == i \in {0, nsources}

RECURSIVE ExplodedLoop(_, _, _, _, _, _, _)
\* while loop: for i, (target, it) in enumerate(iterable_sources.items()):
\* kwargs[target] = next(it); then r = self.f(**kwargs); result.append(r).
\* Round k, source p (i = p - 1), with the calls made so far.
ExplodedLoop(f, kw, srcs, k, p, result, ncalls) ==
    IF p > Len(srcs)
    THEN LET r == Apply(f, kw)
         IN IF ~r.ok THEN [ok |-> FALSE, err |-> "Raised", val |-> NoneC, calls |-> ncalls + 1]
            ELSE ExplodedLoop(f, kw, srcs, k + 1, 1, Append(result, r.val), ncalls + 1)
    ELSE IF k > Len(srcs[p].c.items)
    THEN IF StopsCleanly(p - 1, Len(srcs))
         THEN [ok |-> TRUE, err |-> "", val |-> ListC(result), calls |-> ncalls]
         ELSE [ok |-> FALSE, err |-> "ValueError", val |-> NoneC, calls |-> ncalls]
    ELSE ExplodedLoop(f, KwSet(kw, ExplodedTarget(srcs[p].name), srcs[p].c.items[k]),
                      srcs, k, p + 1, result, ncalls)

\* The calculation once the dependencies are read: one call, or one call
\* per round over the exploded sources.
Calculate(f, kw) ==
    LET srcs == SelectSeq(kw, LAMBDA a : IsExploded(a.name))
        plain == SelectSeq(kw, LAMBDA a : ~IsExploded(a.name))
    IN IF srcs = <<>>
       THEN LET r == Apply(f, kw) IN [ok |-> r.ok, err |-> "", val |-> r.val, calls |-> 1]
       ELSE ExplodedLoop(f, plain, srcs, 1, 1, <<>>, 0)

\* The end of LazyiVal.value once the function has returned r: the results
\* are assigned and stored in the caches.
Assign(nd, node, st, r) ==
    LET id == HId(node.hosh)
        st2 == [st EXCEPT !.calls[node.slot] = @ + r.calls]
        nz == Normalize(r.val, node.n)
        st3 == [st2 EXCEPT !.slots[node.slot] = ZipAssign(@, nz.items)]
        st4 == IF node.hascaches
               THEN [st3 EXCEPT !.tiers = StoreLoop(nd, st3.slots, st3.tiers,
                                                    st3.slots[node.slot], node.caches, 1, 1)]
               ELSE st3
        \* the store loop up to the list it cannot write
        st5 == [st3 EXCEPT !.tiers = StoreLoop(nd, st3.slots, st3.tiers,
                                               SubSeq(st3.slots[node.slot], 1, 1),
                                               BeforeList(node.caches), 1, 1)]
    IN IF ~r.ok \/ ~nz.ok THEN [st |-> st2, val |-> NoneC, ok |-> FALSE]
       ELSE IF node.hascaches /\ HasList(node.caches)
       THEN [st |-> st5, val |-> NoneC, ok |-> FALSE]
       ELSE [st |-> st4, val |-> SlotGet(st4.slots[node.slot], id), ok |-> TRUE]

\* The calculation of LazyiVal.value after the dependencies were read as d.
Compute(nd, node, d) ==
    IF ~d.ok THEN [st |-> d.st, val |-> NoneC, ok |-> FALSE]
    ELSE CHOOSE res \in {Assign(nd, node, d.st, r) : r \in {Calculate(node.f, d.kw)}} : TRUE

RECURSIVE NodeValue(_, _, _)
RECURSIVE ValueOf(_, _, _)
RECURSIVE EvalDeps(_, _, _, _, _)

\* ival.value for a value of a map or a dependency.
ValueOf(nd, st, v) ==
    IF v.lazy THEN NodeValue(nd, st, v.node) ELSE [st |-> st, val |-> v.c, ok |-> TRUE]

\* for field, ival in self.deps.items(): kwargs[field] = ival.value, or
\* iterable_sources[split[1]] = iter(self.deps[field].value)
EvalDeps(nd, st, deps, k, kw) ==
    IF k > Len(deps) THEN [st |-> st, kw |-> kw, ok |-> TRUE]
    ELSE LET r == ValueOf(nd, st, deps[k].v)
         IN IF ~r.ok THEN [st |-> r.st, kw |-> kw, ok |-> FALSE]
            ELSE IF IsExploded(deps[k].name) /\ ~IsIterable(r.val)
            THEN [st |-> r.st, kw |-> kw, ok |-> FALSE]
            ELSE EvalDeps(nd, r.st, deps, k + 1, Append(kw, [name |-> deps[k].name, c |-> r.val]))

\* LazyiVal.value of node j in st = [slots, tiers, calls, scans].
NodeValue(nd, st, j) ==
    LET node == nd[j]
        id == HId(node.hosh)
        hit == IF node.hascaches THEN ScanFrom(st.tiers, node.caches, id, 1) ELSE 0
        tested == IF ~node.hascaches THEN 0
                  ELSE IF hit > 0 THEN hit ELSE IF hit < 0 THEN 0 - hit ELSE Len(node.caches)
        st1 == [st EXCEPT !.scans[j] = @ + tested]
    IN IF IsEvaluated(nd, st.slots, LazyRef(j, node.hosh))
       THEN [st |-> st, val |-> SlotGet(st.slots[node.slot], id), ok |-> TRUE]
       ELSE IF hit < 0 THEN [st |-> st1, val |-> NoneC, ok |-> FALSE]
       ELSE IF hit > 0
       THEN LET val == TierGet(st.tiers[node.caches[hit]], id)
            IN [st |-> [st1 EXCEPT !.tiers = Backfill(st.tiers, node.caches, hit, id, val),
                                   !.slots[node.slot] = SlotSet(@, id, val)],
                val |-> val, ok |-> TRUE]
       ELSE CHOOSE res \in {Compute(nd, node, d) : d \in {EvalDeps(nd, st1, node.deps, 1, <<>>)}} : TRUE


(***************************************************************************)
(* FrozenIdict.evaluate                                                    *)
(***************************************************************************)
\* ival.evaluate(): forces the value.
IValEvaluate(nd, st, v) == ValueOf(nd, st, v)

RECURSIVE Evaluate(_, _, _, _)
\* for k, ival in self.data.items(): if k not in ["_id", "_ids"]: ival.evaluate()
Evaluate(nd, st, m, j) ==
    IF j > Len(m.keys) THEN [st |-> st, ok |-> TRUE]
    ELSE CHOOSE res \in
            {IF ~r.ok THEN [st |-> r.st, ok |-> FALSE] ELSE Evaluate(nd, r.st, m, j + 1) :
                r \in {IValEvaluate(nd, st, m.vals[j])}} : TRUE

(***************************************************************************)
(* FrozenIdict.fields and FrozenIdict.metafields.                          *)
(***************************************************************************)
\* The keys of self.data: the entries' keys, then "_id" and "_ids".
DataKeys(m) == m.keys \o <<"_id", "_ids">>

FieldsAll(m) == DataKeys(m)

\* [k for k in self.data if not k.startswith("_")]
Fields(m) == SelectSeq(DataKeys(m), LAMBDA k : ~StartsWithUnderscore(k))

\* [k for k in self.data if k.startswith("_") and k not in ["_id", "_ids"]]
Metafields(m) == SelectSeq(DataKeys(m), LAMBDA k : StartsWithUnderscore(k) /\ k \notin Reserved)

(***************************************************************************)
(* FrozenIdict.asdict, a cached property.                                  *)
(***************************************************************************)
AllEvaluated(nd, sl, m) == \A j \in 1..Len(m.vals) : IsEvaluated(nd, sl, m.vals[j])

RECURSIVE EvalEntries(_, _, _, _, _)
\* {k: v for k, v in self.entries()}, entries() yielding k, ival.value
EvalEntries(nd, st, m, j, acc) ==
    IF j > Len(m.keys) THEN [st |-> st, dic |-> acc, ok |-> TRUE]
    ELSE CHOOSE res \in
            {IF ~r.ok THEN [st |-> r.st, dic |-> acc, ok |-> FALSE]
             ELSE EvalEntries(nd, r.st, m, j + 1, Append(acc, Entry(m.keys[j], Plain(r.val)))) :
                r \in {ValueOf(nd, st, m.vals[j])}} : TRUE

AsDictDropFirst(nd, st, m) ==
    LET r == EvalEntries(nd, st, m, 1, <<>>)
    IN [st |-> r.st, ok |-> r.ok,
        dic |-> SubSeq(r.dic, 2, Len(r.dic))
                  \o <<Entry("_id", Plain(IdsC(m.hosh))), Entry("_ids", Plain(IdsC(m.hosh)))>>]

\* The body of asdict: the entries' contents, then "_id" and "_ids".
AsDict(nd, st, m) ==
    LET r == EvalEntries(nd, st, m, 1, <<>>)
    IN [st |-> r.st, ok |-> r.ok,
        dic |-> r.dic \o <<Entry("_id", Plain(IdsC(m.hosh))), Entry("_ids", Plain(IdsC(m.hosh)))>>]

(***************************************************************************)
(* FrozenIdict.copy, __setitem__ and __delitem__.                          *)
(***************************************************************************)
SetItemWrites(m, key, value) ==
    [ok |-> TRUE, err |-> "",
     map |-> IF key \in {m.keys[j] : j \in 1..Len(m.keys)} THEN m
             ELSE [m EXCEPT !.keys = Append(m.keys, key),
                            !.vals = Append(m.vals, StrictOf(value))]]

\* print(value); raise Exception("Cannot set an entry ... of a frozen dict.")
SetItem(m, key, value) == [ok |-> FALSE, err |-> "Frozen", map |-> m]

\* raise Exception("Cannot delete an entry ... from a frozen dict.")
DelItem(m, key) == [ok |-> FALSE, err |-> "Frozen", map |-> m]

\* raise Exception("A FrozenIdict doesn't need copies")
Copy(m) == [ok |-> FALSE, err |-> "Frozen", map |-> m]

\* self.asdict: the cached dict once the property has been computed.
CachedAsDict(nd, st, m) ==
    IF m.cached THEN [st |-> st, ok |-> TRUE, dic |-> m.asdict] ELSE AsDict(nd, st, m)

(***************************************************************************)
(* The read accessors of a FrozenIdict, and Idict, the wrapper that holds  *)
(* a FrozenIdict in its attribute frozen.                                  *)
(***************************************************************************)
Accessors ==
    {"id", "ids", "hosh", "fields", "metafields", "entries", "items", "asdict", "iter", "contains"}

\* The accessor acc of the map m; key is the operand of `in`.  out is what
\* is returned, as a sequence; map is m with its asdict cache.
FrozenGet(nd, st, m, acc, key) ==
    LET pure(out) == [st |-> st, ok |-> TRUE, out |-> out, map |-> m]
    IN CASE acc = "id" -> pure(<<MapId(m)>>)
         [] acc = "ids" -> pure(m.ids)
         [] acc = "hosh" -> pure(<<m.hosh>>)
         [] acc = "fields" -> pure(Fields(m))
         [] acc = "metafields" -> pure(Metafields(m))
         [] acc = "iter" -> pure(DataKeys(m))
         [] acc = "contains" -> pure(<<\E j \in 1..Len(DataKeys(m)) : DataKeys(m)[j] = key>>)
         [] acc = "entries" ->
               CHOOSE res \in {[st |-> r.st, ok |-> r.ok, out |-> r.dic, map |-> m] :
                                  r \in {EvalEntries(nd, st, m, 1, <<>>)}} : TRUE
         [] acc = "items" ->
               CHOOSE res \in {[st |-> r.st, ok |-> r.ok, out |-> r.dic, map |-> m] :
                                  r \in {AsDict(nd, st, m)}} : TRUE
         [] OTHER ->
               CHOOSE res \in
                   {[st |-> r.st, ok |-> r.ok, out |-> r.dic,
                     map |-> IF r.ok THEN [m EXCEPT !.cached = TRUE, !.asdict = r.dic] ELSE m] :
                       r \in {CachedAsDict(nd, st, m)}} : TRUE

\* The wrapper reading the dict it inherits from, which stays empty.
IdictGetOwn(nd, st, ms, w, acc, key) ==
    IF acc \in {"iter", "contains"}
    THEN [st |-> st, ok |-> TRUE, map |-> ms[w.frozen],
          out |-> IF acc = "iter" THEN <<>> ELSE <<FALSE>>]
    ELSE FrozenGet(nd, st, ms[w.frozen], acc, key)

\* Idict.id, ids, hosh, fields, metafields, entries, items, asdict,
\* __iter__ and __contains__: each returns the accessor of self.frozen.
IdictGet(nd, st, ms, w, acc, key) == FrozenGet(nd, st, ms[w.frozen], acc, key)

\* Idict.evaluate: self.frozen.evaluate()
IdictEvaluate(nd, st, ms, w) == Evaluate(nd, st, ms[w.frozen], 1)

(***************************************************************************)
(* FrozenIdict.__eq__ against a plain dict.                                *)
(***************************************************************************)
\* del data[k]
DictDel(es, k) == SelectSeq(es, LAMBDA e : e.k # k)

\* data == other for two dicts of contents
DictEq(d, e) ==
    /\ {d[j].k : j \in 1..Len(d)} = {e[j].k : j \in 1..Len(e)}
    /\ \A j \in 1..Len(d) : d[j].raw.c = e[IndexOf(e, d[j].k)].raw.c

\* del data["_id"]; del data["_ids"]; return data == other, data being the
\* cached dict itself.
EqData(ad, m, other) ==
    IF ~ad.ok THEN [st |-> ad.st, ok |-> FALSE, err |-> "Raised", map |-> m, res |-> FALSE]
    ELSE IF ~HasKey(ad.dic, "_id")
    THEN [st |-> ad.st, ok |-> FALSE, err |-> "KeyError",
          map |-> [m EXCEPT !.cached = TRUE, !.asdict = ad.dic], res |-> FALSE]
    ELSE CHOOSE res \in
            {[st |-> ad.st, ok |-> TRUE, err |-> "",
              map |-> [m EXCEPT !.cached = TRUE, !.asdict = data], res |-> DictEq(data, other)] :
                data \in {DictDel(DictDel(ad.dic, "_id"), "_ids")}} : TRUE

\* self == other
Eq(nd, st, m, other) ==
    IF HasKey(other, "_id")
    THEN [st |-> st, ok |-> TRUE, err |-> "", map |-> m,
          res |-> IdsC(m.hosh) = other[IndexOf(other, "_id")].raw.c]
    ELSE IF m.keys # [j \in 1..Len(other) |-> other[j].k]
    THEN [st |-> st, ok |-> TRUE, err |-> "", map |-> m, res |-> FALSE]
    ELSE CHOOSE res \in
            {IF ~ev.ok
             THEN [st |-> ev.st, ok |-> FALSE, err |-> "Raised", map |-> m, res |-> FALSE]
             ELSE CHOOSE res2 \in
                     {EqData(ad, m, other) : ad \in {CachedAsDict(nd, ev.st, m)}} : TRUE :
                ev \in {Evaluate(nd, st, m, 1)}} : TRUE

(***************************************************************************)
(* FrozenIdict.__rshift__: merge and bind.                                 *)
(***************************************************************************)
\* other.data of a FrozenIdict: its entries, then "_id" and "_ids".
DataWithIds(m) ==
    DataOf(m) \o <<Entry("_id", Plain(IdsC(m.hosh))), Entry("_ids", Plain(IdsC(m.hosh)))>>

\* data[k] = v for k, v in other.items(), then FrozenIdict(data)
MergeEntries(m, other) == Construct(DictUpdate(DataOf(m), other), <<>>)

MergeDictNoOverride(m, d) ==
    Construct(DictUpdate(d, DataOf(m)), <<>>)

\* self >> d for a plain dict d
MergeDict(m, d) == MergeEntries(m, d)

\* self >> other for a FrozenIdict: other = other.data
MergeFrozen(m, o) == MergeEntries(m, DataWithIds(o))

\* self >> other for an Idict: other = self.frozen reads the attribute
\* `frozen` of the left operand, which __getattr__ finds only as a field.
MergeMutable(m, o) ==
    [ok |-> FALSE, err |-> IF HasField(m, "frozen") THEN "NotImplemented" ELSE "AttributeError",
     map |-> EmptyMap, wrapped |-> 0, combined |-> 0, data |-> <<>>]

HasPair(ps, k) == \E j \in 1..Len(ps) : ps[j].k = k

PairOf(ps, k) == ps[CHOOSE j \in 1..Len(ps) : ps[j].k = k]

DepSet(deps, name, v) ==
    IF \E j \in 1..Len(deps) : deps[j].name = name
    THEN [j \in 1..Len(deps) |-> IF deps[j].name = name THEN [name |-> name, v |-> v] ELSE deps[j]]
    ELSE Append(deps, [name |-> name, v |-> v])

\* isinstance(default, Iterable)
IsIterableDefault(c) == c.t \in {"list", "tuple", "dict", "str"}

\* dict[k] = pair: an existing key keeps its place, a new key goes last.
PairSet(ps, pair) ==
    IF HasPair(ps, pair.k)
    THEN [j \in 1..Len(ps) |-> IF ps[j].k = pair.k THEN pair ELSE ps[j]]
    ELSE Append(ps, pair)

RECURSIVE LetInputs(_, _, _, _)
\* for i in instr.split(","): ins[j] is one parsed item, the source without
\* its "~", the target, and whether the "~" was there.
LetInputs(ins, kwargs, j, acc) ==
    IF j > Len(ins) THEN [ok |-> TRUE, err |-> "", input |-> acc.input, space |-> acc.space,
                          values |-> acc.values]
    ELSE LET src == ins[j].src
             item == [src |-> src, tgt |-> ins[j].tgt]
             input == IF \E p \in 1..Len(acc.input) : acc.input[p].src = src
                      THEN [p \in 1..Len(acc.input) |->
                               IF acc.input[p].src = src THEN item ELSE acc.input[p]]
                      ELSE Append(acc.input, item)
         IN IF ins[j].sampled
            THEN IF ~HasPair(kwargs, src) \/ IsIterableDefault(PairOf(kwargs, src).c)
                 THEN [ok |-> FALSE, err |-> "Exception", input |-> acc.input, space |-> acc.space,
                       values |-> acc.values]
                 ELSE LetInputs(ins, kwargs, j + 1,
                                [acc EXCEPT !.input = input,
                                            !.space = PairSet(@, [k |-> src, c |-> PairOf(kwargs, src).c,
                                                                  choices |-> PairOf(kwargs, src).c.items])])
            ELSE IF HasPair(kwargs, src)
            THEN LetInputs(ins, kwargs, j + 1,
                           [acc EXCEPT !.input = input,
                                       !.values = PairSet(@, [k |-> src, c |-> PairOf(kwargs, src).c])])
            ELSE LetInputs(ins, kwargs, j + 1, [acc EXCEPT !.input = input])

\* Let(f, "ins->out", **kwargs) with a non-empty input part.
LetInit(f, ins, out, kwargs) ==
    LET r == LetInputs(ins, kwargs, 1, [input |-> <<>>, space |-> <<>>, values |-> <<>>])
    IN [ok |-> r.ok, err |-> r.err,
        let |-> [f |-> f, input |-> r.input, output |-> out, hasid |-> FALSE, id |-> HUnit,
                 space |-> r.space, values |-> r.values, parsed |-> TRUE]]

RECURSIVE BindDeps(_, _, _, _, _)
\* for fin_source, fin_target in other.input.items(): resolve the source
\* among the entries, the sampled defaults (pick stands for rnd.choice),
\* the literal defaults.  A Let whose inputs come from the function's
\* signature (let.parsed false) has no input_space and no input_values.
BindDeps(data, let, pick, j, deps) ==
    IF j > Len(let.input) THEN [ok |-> TRUE, err |-> "", deps |-> deps]
    ELSE LET src == let.input[j].src
             tgt == let.input[j].tgt
         IN IF HasKey(data, src)
            THEN BindDeps(data, let, pick, j + 1, DepSet(deps, tgt, data[IndexOf(data, src)].raw.v))
            ELSE IF ~let.parsed THEN [ok |-> FALSE, err |-> "AttributeError", deps |-> deps]
            ELSE IF HasPair(let.space, src)
            THEN BindDeps(data, let, pick, j + 1,
                          DepSet(deps, tgt, StrictOf(PairOf(let.space, src).choices[pick])))
            ELSE IF HasPair(let.values, src)
            THEN BindDeps(data, let, pick, j + 1, DepSet(deps, tgt, StrictOf(PairOf(let.values, src).c)))
            ELSE [ok |-> FALSE, err |-> "MissingField", deps |-> deps]

RECURSIVE BindOutputs(_, _, _, _, _, _)
\* for i, fout in enumerate(other.output):
\*     data[fout] = LazyiVal(other.f, i, n, deps, shared_result, fid=other.id)
BindOutputs(let, deps, slot, i, nd, acc) ==
    IF i >= Len(let.output) THEN acc
    ELSE LET node == LazyiVal(let.f, i, Len(let.output), deps, slot,
                              IF let.hasid THEN let.id ELSE F2Hosh(let.f), FALSE, <<>>)
             j == Len(acc.nodes) + 1
         IN BindOutputs(let, deps, slot, i + 1, nd,
                [nodes |-> Append(acc.nodes, node),
                 results |-> SlotSet(acc.results, HId(node.hosh), NoneC),
                 data |-> DictSet(acc.data, let.output[i + 1], IVal(LazyRef(j, node.hosh)))])

\* self >> Let(...).  nd and sl are the heaps the new nodes and the new
\* shared result dict are added to.
Bind(nd, sl, m, let, pick) ==
    LET d == BindDeps(DataOf(m), let, pick, 1, <<>>)
        out == BindOutputs(let, d.deps, Len(sl) + 1, 0, nd,
                           [nodes |-> nd, results |-> <<>>, data |-> DataOf(m)])
        made == Construct(out.data, <<>>)
    IN IF ~d.ok THEN [ok |-> FALSE, err |-> d.err, map |-> EmptyMap, nodes |-> nd, slots |-> sl]
       ELSE [ok |-> made.ok, err |-> made.err, map |-> made.map, nodes |-> out.nodes,
             slots |-> Append(sl, out.results)]


(***************************************************************************)
(* State.  maps, nodes and slots are the heaps of FrozenIdict objects,     *)
(* LazyiVal objects and shared result dicts; tiers are the cache stores;   *)
(* calls[s] counts the invocations of the function of result dict s;       *)
(* scans[j] counts the containment tests node j made on cache tiers; last  *)
(* describes the operation that was just run.                              *)
(***************************************************************************)
TierIds == {1, 2}

NoLet ==
    [f |-> "", input |-> <<>>, output |-> <<>>, hasid |-> FALSE, id |-> HUnit, space |-> <<>>,
     values |-> <<>>, parsed |-> TRUE]

NoOp ==
    [op |-> "", ok |-> TRUE, err |-> "", m |-> 0, r |-> 0, k |-> "", node |-> 0, val |-> NoneC,
     wrapped |-> 0, combined |-> 0, dict |-> <<>>, kwargs |-> <<>>, other |-> <<>>, out |-> <<>>,
     meta |-> <<>>, res |-> FALSE, let |-> NoLet, w |-> 0, acc |-> ""]

Engine == [slots |-> slots, tiers |-> tiers, calls |-> calls, scans |-> scans]

SetEngine(st) ==
    /\ slots' = st.slots
    /\ tiers' = st.tiers
    /\ calls' = st.calls
    /\ scans' = st.scans

\* The caller's dictionary after FrozenIdict(d, **kw): `data = _dictionary
\* or {}` is the caller's own dict unless that is empty, and
\* data.update(kwargs) comes before the test of the reserved keys.
CallerDict(d, kw) == IF d # <<>> THEN DictUpdate(d, kw) ELSE d

\* FrozenIdict(d, **kw)
DoConstruct(d, kw) ==
    LET r == Construct(d, kw)
    IN /\ Len(maps) < MaxMaps
       /\ maps' = IF r.ok THEN Append(maps, r.map) ELSE maps
       /\ last' = [NoOp EXCEPT !.op = "Construct", !.ok = r.ok, !.err = r.err,
                               !.r = IF r.ok THEN Len(maps) + 1 ELSE 0,
                               !.wrapped = r.wrapped, !.combined = r.combined,
                               !.dict = d, !.kwargs = kw, !.other = CallerDict(d, kw)]
       /\ UNCHANGED <<nodes, slots, tiers, calls, scans, threads, idicts>>

\* The shared end of the three merges.
\* FrozenIdict.fromdict(d, ids)
DoFromDict(d, ids) ==
    LET r == FromDict(d, ids)
    IN /\ Len(maps) < MaxMaps
       /\ maps' = IF r.ok THEN Append(maps, r.map) ELSE maps
       /\ last' = [NoOp EXCEPT !.op = "FromDict", !.ok = r.ok, !.err = r.err,
                               !.r = IF r.ok THEN Len(maps) + 1 ELSE 0, !.dict = d]
       /\ UNCHANGED <<nodes, slots, tiers, calls, scans, threads, idicts>>

DoMergeInPlace(op, m, other, r) ==
    /\ Len(maps) < MaxMaps
    /\ maps' = IF r.ok THEN [maps EXCEPT ![m] = r.map] ELSE maps
    /\ last' = [NoOp EXCEPT !.op = op, !.ok = r.ok, !.err = r.err, !.m = m,
                            !.r = IF r.ok THEN m ELSE 0, !.other = other]
    /\ UNCHANGED <<nodes, slots, tiers, calls, scans, threads, idicts>>

DoMerge(op, m, other, r) ==
    /\ Len(maps) < MaxMaps
    /\ maps' = IF r.ok THEN Append(maps, r.map) ELSE maps
    /\ last' = [NoOp EXCEPT !.op = op, !.ok = r.ok, !.err = r.err, !.m = m,
                            !.r = IF r.ok THEN Len(maps) + 1 ELSE 0, !.other = other]
    /\ UNCHANGED <<nodes, slots, tiers, calls, scans, threads, idicts>>

\* maps[m] >> d
DoMergeDict(m, d) == DoMerge("MergeDict", m, d, MergeDict(maps[m], d))

\* maps[m] >> maps[o]
DoMergeFrozen(m, o) == DoMerge("MergeFrozen", m, DataOf(maps[o]), MergeFrozen(maps[m], maps[o]))

\* maps[m] >> Idict(_frozen=maps[o])
DoMergeMutable(m, o) == DoMerge("MergeMutable", m, DataOf(maps[o]), MergeMutable(maps[m], maps[o]))

\* maps[m] >> let
DoBind(m, let, pick) ==
    LET r == Bind(nodes, slots, maps[m], let, pick)
    IN /\ Len(maps) < MaxMaps
       /\ Len(nodes) + Len(let.output) <= MaxNodes
       /\ maps' = IF r.ok THEN Append(maps, r.map) ELSE maps
       /\ nodes' = r.nodes
       /\ slots' = r.slots
       /\ calls' = IF r.ok THEN Append(calls, 0) ELSE calls
       /\ scans' = [j \in 1..Len(r.nodes) |-> IF j <= Len(scans) THEN scans[j] ELSE 0]
       /\ last' = [NoOp EXCEPT !.op = "Bind", !.ok = r.ok, !.err = r.err, !.m = m,
                               !.r = IF r.ok THEN Len(maps) + 1 ELSE 0, !.out = let.output,
                               !.let = let]
       /\ UNCHANGED <<tiers, threads, idicts>>

\* Let(f, "ins->out", **kwargs)
DoLet(f, ins, out, kwargs) ==
    LET r == LetInit(f, ins, out, kwargs)
    IN /\ last' = [NoOp EXCEPT !.op = "Let", !.ok = r.ok, !.err = r.err,
                               !.let = IF r.ok THEN r.let ELSE NoLet,
                               !.other = ins, !.kwargs = kwargs]
       /\ UNCHANGED <<maps, nodes, slots, tiers, calls, scans, threads, idicts>>

\* maps[m] >> other, other a list of cache tiers
DoAttachCaches(m, other) ==
    LET r == AttachCachesOp(nodes, slots, tiers, maps[m], other)
    IN /\ Len(maps) < MaxMaps
       /\ maps' = IF r.ok THEN Append(maps, r.map) ELSE maps
       /\ tiers' = r.ts
       /\ last' = [NoOp EXCEPT !.op = "AttachCaches", !.ok = r.ok,
                               !.err = IF r.ok THEN "" ELSE "TypeError", !.m = m,
                               !.r = IF r.ok THEN Len(maps) + 1 ELSE 0, !.other = other]
       /\ UNCHANGED <<nodes, slots, calls, scans, threads, idicts>>

Quiet == \A s \in 1..Len(calls) : calls[s] < MaxReads

\* maps[m][k]: FrozenIdict.__getitem__ on a key that is an entry
DoRead(m, k) ==
    LET v == ValOf(maps[m], k)
        r == ValueOf(nodes, Engine, v)
    IN /\ Quiet
       /\ \A j \in 1..Len(scans) : scans[j] < MaxReads * MaxLen
       /\ HasField(maps[m], k)
       /\ SetEngine(r.st)
       /\ last' = [NoOp EXCEPT !.op = "Read", !.ok = r.ok, !.m = m, !.k = k,
                               !.node = IF v.lazy THEN v.node ELSE 0, !.val = r.val]
       /\ UNCHANGED <<maps, nodes, threads, idicts>>

\* nodes[j].value, read on the object itself
DoReadNode(j) ==
    LET r == NodeValue(nodes, Engine, j)
    IN /\ Quiet
       /\ \A i \in 1..Len(scans) : scans[i] < MaxReads * MaxLen
       /\ SetEngine(r.st)
       /\ last' = [NoOp EXCEPT !.op = "ReadNode", !.ok = r.ok, !.node = j, !.val = r.val]
       /\ UNCHANGED <<maps, nodes, threads, idicts>>

\* maps[m].asdict: computed on the first access, the cached dict afterwards
DoAsDict(m) ==
    LET r == CachedAsDict(nodes, Engine, maps[m])
    IN /\ Quiet
       /\ \A j \in 1..Len(scans) : scans[j] < MaxReads * MaxLen
       /\ SetEngine(r.st)
       /\ maps' = IF r.ok THEN [maps EXCEPT ![m].cached = TRUE, ![m].asdict = r.dic] ELSE maps
       /\ last' = [NoOp EXCEPT !.op = "AsDict", !.ok = r.ok, !.m = m, !.other = r.dic]
       /\ UNCHANGED <<nodes, threads, idicts>>

\* maps[m][key] = value
DoSetItem(m, key, value) ==
    LET r == SetItem(maps[m], key, value)
    IN /\ maps' = [maps EXCEPT ![m] = r.map]
       /\ last' = [NoOp EXCEPT !.op = "SetItem", !.ok = r.ok, !.err = r.err, !.m = m, !.k = key]
       /\ UNCHANGED <<nodes, slots, tiers, calls, scans, threads, idicts>>

\* del maps[m][key]
DoDelItem(m, key) ==
    LET r == DelItem(maps[m], key)
    IN /\ maps' = [maps EXCEPT ![m] = r.map]
       /\ last' = [NoOp EXCEPT !.op = "DelItem", !.ok = r.ok, !.err = r.err, !.m = m, !.k = key]
       /\ UNCHANGED <<nodes, slots, tiers, calls, scans, threads, idicts>>

\* maps[m].copy()
DoCopy(m) ==
    LET r == Copy(maps[m])
    IN /\ maps' = [maps EXCEPT ![m] = r.map]
       /\ last' = [NoOp EXCEPT !.op = "Copy", !.ok = r.ok, !.err = r.err, !.m = m]
       /\ UNCHANGED <<nodes, slots, tiers, calls, scans, threads, idicts>>

\* maps[m].unfrozen: Idict(_frozen=maps[m])
DoUnfrozen(m) ==
    /\ Len(idicts) < MaxMaps
    /\ idicts' = Append(idicts, [frozen |-> m])
    /\ last' = [NoOp EXCEPT !.op = "Unfrozen", !.m = m, !.w = Len(idicts) + 1]
    /\ UNCHANGED <<maps, nodes, slots, tiers, calls, scans, threads>>

\* An accessor of the wrapper idicts[w]
DoIdictGet(w, acc, key) ==
    LET r == IdictGet(nodes, Engine, maps, idicts[w], acc, key)
    IN /\ Quiet
       /\ SetEngine(r.st)
       /\ maps' = [maps EXCEPT ![idicts[w].frozen] = r.map]
       /\ last' = [NoOp EXCEPT !.op = "IdictGet", !.ok = r.ok, !.w = w, !.acc = acc, !.k = key,
                               !.other = r.out]
       /\ UNCHANGED <<nodes, threads, idicts>>

\* idicts[w].evaluate()
DoIdictEvaluate(w) ==
    LET r == IdictEvaluate(nodes, Engine, maps, idicts[w])
    IN /\ Quiet
       /\ SetEngine(r.st)
       /\ last' = [NoOp EXCEPT !.op = "IdictEvaluate", !.ok = r.ok, !.w = w]
       /\ UNCHANGED <<maps, nodes, threads, idicts>>

\* maps[m] == other, other a plain dict
DoEq(m, other) ==
    LET r == Eq(nodes, Engine, maps[m], other)
    IN /\ Quiet
       /\ \A j \in 1..Len(scans) : scans[j] < MaxReads * MaxLen
       /\ SetEngine(r.st)
       /\ maps' = [maps EXCEPT ![m] = r.map]
       /\ last' = [NoOp EXCEPT !.op = "Eq", !.ok = r.ok, !.err = r.err, !.m = m, !.other = other,
                               !.res = r.res]
       /\ UNCHANGED <<nodes, threads, idicts>>

\* maps[m].evaluate()
DoEvaluate(m) ==
    LET r == Evaluate(nodes, Engine, maps[m], 1)
    IN /\ Quiet
       /\ \A j \in 1..Len(scans) : scans[j] < MaxReads * MaxLen
       /\ SetEngine(r.st)
       /\ last' = [NoOp EXCEPT !.op = "Evaluate", !.ok = r.ok, !.m = m]
       /\ UNCHANGED <<maps, nodes, threads, idicts>>

\* maps[m].fields and maps[m].metafields; the data they are computed from
\* never changes, so the cached lists are the computed ones.
DoFields(m) ==
    /\ last' = [NoOp EXCEPT !.op = "Fields", !.m = m, !.out = Fields(maps[m]),
                            !.meta = Metafields(maps[m])]
    /\ UNCHANGED <<maps, nodes, slots, tiers, calls, scans, threads, idicts>>

\* nodes[j].replace(caches=caches), the call withcaches ends with: a new
\* LazyiVal over the same function, dependencies and result dict, whose
\* constructor stores None under its id.
DoReplace(j, caches) ==
    LET old == nodes[j]
        node == LazyiVal(old.f, old.i, old.n, old.deps, old.slot, old.fhosh, TRUE, caches)
    IN /\ Len(nodes) < MaxNodes
       /\ nodes' = Append(nodes, node)
       /\ slots' = [slots EXCEPT ![old.slot] = SlotSet(@, HId(node.hosh), NoneC)]
       /\ scans' = Append(scans, 0)
       /\ last' = [NoOp EXCEPT !.op = "Replace", !.node = Len(nodes) + 1]
       /\ UNCHANGED <<maps, tiers, calls, threads, idicts>>

\* nodes[j].withcaches(caches), caches a new list: the list is appended to
\* the chain of nodes[j] when it has one, and the value returned is
\* nodes[j].replace(caches=caches).
DoWithCaches(j, caches) ==
    LET old == nodes[j]
        node == LazyiVal(old.f, old.i, old.n, old.deps, old.slot, old.fhosh, TRUE, caches)
        appended == IF old.hascaches THEN [nodes EXCEPT ![j].caches = Append(@, ListInChain)]
                    ELSE nodes
    IN /\ Len(nodes) < MaxNodes
       /\ nodes' = Append(appended, node)
       /\ slots' = [slots EXCEPT ![old.slot] = SlotSet(@, HId(node.hosh), NoneC)]
       /\ scans' = Append(scans, 0)
       /\ last' = [NoOp EXCEPT !.op = "WithCaches", !.node = Len(nodes) + 1, !.r = j]
       /\ UNCHANGED <<maps, tiers, calls, threads, idicts>>

(***************************************************************************)
(* LazyiVal.value run by threads.  The method takes no lock, so a thread   *)
(* may be preempted between the test of isevaluated, the call of the       *)
(* function, the assignment of the results and the final read.  The nodes  *)
(* read this way have no caches and strict dependencies.                   *)
(***************************************************************************)
Thread(j) == [node |-> j, pc |-> "test", ret |-> NoneC, val |-> NoneC]

ThreadFrame == UNCHANGED <<maps, nodes, tiers, scans, last, idicts>>

\* A thread enters nodes[j].value
DoStartValue(j) ==
    /\ Len(threads) < MaxThreads
    /\ ~nodes[j].hascaches
    /\ threads' = Append(threads, Thread(j))
    /\ UNCHANGED <<slots, calls>>
    /\ ThreadFrame

\* if not self.isevaluated:
DoTestEvaluated(t) ==
    LET node == nodes[threads[t].node]
    IN /\ threads[t].pc = "test"
       /\ threads' = [threads EXCEPT ![t].pc =
                         IF IsEvaluated(nodes, slots, LazyRef(threads[t].node, node.hosh))
                         THEN "read" ELSE "call"]
       /\ UNCHANGED <<slots, calls>>
       /\ ThreadFrame

\* result = self.f(**kwargs)
DoCall(t) ==
    LET node == nodes[threads[t].node]
        d == EvalDeps(nodes, Engine, node.deps, 1, <<>>)
        r == Apply(node.f, d.kw)
    IN /\ threads[t].pc = "call"
       /\ calls' = [calls EXCEPT ![node.slot] = @ + 1]
       /\ threads' = [threads EXCEPT ![t].pc = IF r.ok THEN "assign" ELSE "raised",
                                     ![t].ret = r.val]
       /\ UNCHANGED slots
       /\ ThreadFrame

\* The normalization and `for id, res in zip(self.results, result)`
DoAssign(t) ==
    LET node == nodes[threads[t].node]
        nz == Normalize(threads[t].ret, node.n)
    IN /\ threads[t].pc = "assign"
       /\ slots' = IF nz.ok THEN [slots EXCEPT ![node.slot] = ZipAssign(@, nz.items)] ELSE slots
       /\ threads' = [threads EXCEPT ![t].pc = IF nz.ok THEN "read" ELSE "raised"]
       /\ UNCHANGED calls
       /\ ThreadFrame

\* return self.results[self.id]
DoReturn(t) ==
    LET node == nodes[threads[t].node]
    IN /\ threads[t].pc = "read"
       /\ threads' = [threads EXCEPT ![t].pc = "done",
                                     ![t].val = SlotGet(slots[node.slot], HId(node.hosh))]
       /\ UNCHANGED <<slots, calls>>
       /\ ThreadFrame

\* LazyiVal(f, i, n, deps, results, caches=caches), results a new dict when
\* slot is past the heap and a dict already shared otherwise.
DoNewLazy(f, i, n, deps, slot, hascaches, caches) ==
    LET node == LazyiVal(f, i, n, deps, slot, F2Hosh(f), hascaches, caches)
        old == IF slot <= Len(slots) THEN slots[slot] ELSE <<>>
        res == SlotSet(old, HId(node.hosh), NoneC)
    IN /\ Len(nodes) < MaxNodes
       /\ slot \in 1..(Len(slots) + 1)
       /\ nodes' = Append(nodes, node)
       /\ slots' = IF slot <= Len(slots) THEN [slots EXCEPT ![slot] = res] ELSE Append(slots, res)
       /\ calls' = IF slot <= Len(slots) THEN calls ELSE Append(calls, 0)
       /\ scans' = Append(scans, 0)
       /\ last' = [NoOp EXCEPT !.op = "NewLazy", !.node = Len(nodes) + 1]
       /\ UNCHANGED <<maps, tiers, threads, idicts>>


(***************************************************************************)
(* Inputs.                                                                 *)
(***************************************************************************)
DistinctKeys(es) == \A i, j \in 1..Len(es) : i # j => es[i].k # es[j].k

\* The dictionaries of at most MaxLen entries over a set of entries.
DictsOver(E) ==
    UNION {{es \in [1..n -> E] : DistinctKeys(es)} : n \in 0..MaxLen}

MapEntries ==
    {Entry("a", Plain(IntC(1))), Entry("b", Plain(IntC(2))), Entry("b", Plain(IntC(1))),
     Entry("_m", Plain(IntC(1))), Entry("_id", Plain(IntC(1)))}

MapKwargs ==
    {<<>>, <<Entry("b", Plain(IntC(2)))>>, <<Entry("_ids", Plain(IntC(1)))>>}

MergeOperands ==
    {<<Entry("b", Plain(IntC(3)))>>, <<Entry("a", Plain(IntC(2))), Entry("_m", Plain(IntC(2)))>>,
     <<Entry("_m", Plain(IntC(3)))>>}

LetOf(f, src, out) ==
    [f |-> f, input |-> <<[src |-> src, tgt |-> "x"]>>, output |-> out, hasid |-> FALSE,
     id |-> HUnit, space |-> <<>>, values |-> <<>>, parsed |-> TRUE]

\* Let(f, "->out"): the inputs are the parameters of f.
LetOfSignature(f, out) == [LetOf(f, "x", out) EXCEPT !.parsed = FALSE]

Lets ==
    {LetOf("square", "x", <<"y">>), LetOf("none", "x", <<"y">>), LetOf("zero", "x", <<"y">>),
     LetOf("pair", "x", <<"y", "z">>), LetOf("npair", "x", <<"y", "z">>),
     LetOf("square", "y", <<"z">>),
     [LetOf("square", "q", <<"y">>) EXCEPT !.values = <<[k |-> "q", c |-> IntC(3)]>>],
     LetOfSignature("square", <<"y">>)}

Picks == {1, 2}

LazyDicts ==
    {<<Entry("x", Plain(IntC(2)))>>,
     <<Entry("a", Plain(IntC(1))), Entry("b", Plain(IntC(2)))>>}

LazyMerges ==
    {<<Entry("b", Plain(IntC(3)))>>, <<Entry("y", Plain(IntC(5))), Entry("a", Plain(IntC(2)))>>}

CacheLists ==
    {<<[tier |-> 1, nested |-> FALSE]>>, <<[tier |-> 2, nested |-> FALSE], [tier |-> 1, nested |-> TRUE]>>}

(***************************************************************************)
(* The library driven through maps: construct, merge, bind, attach caches, *)
(* read.                                                                   *)
(***************************************************************************)
Init ==
    /\ maps = <<>>
    /\ nodes = <<>>
    /\ slots = <<>>
    /\ tiers = [t \in TierIds |-> {}]
    /\ calls = <<>>
    /\ scans = <<>>
    /\ last = NoOp
    /\ threads = <<>>
    /\ idicts = <<>>

\* The harness builds one map from a dictionary and derives the others from
\* the map made last, as in d >> a >> b.
ConstructA == \E d \in LazyDicts : maps = <<>> /\ DoConstruct(d, <<>>)

MergeDictA == \E d \in LazyMerges : maps # <<>> /\ DoMergeDict(Len(maps), d)

BindA == \E let \in Lets, pick \in Picks : maps # <<>> /\ DoBind(Len(maps), let, pick)

AttachCachesA == \E other \in CacheLists : maps # <<>> /\ DoAttachCaches(Len(maps), other)

ReadA == \E m \in 1..Len(maps) : \E j \in 1..Len(maps[m].keys) : DoRead(m, maps[m].keys[j])

EvaluateA == \E m \in 1..Len(maps) : DoEvaluate(m)

Next ==
    \/ EvaluateA
    \/ ConstructA
    \/ MergeDictA
    \/ BindA
    \/ AttachCachesA
    \/ ReadA

Spec == Init /\ [][Next]_vars

(***************************************************************************)
(* The constructor and the merges over many dictionaries.                  *)
(***************************************************************************)
ConstructM == \E d \in DictsOver(MapEntries), kw \in MapKwargs : maps = <<>> /\ DoConstruct(d, kw)

MergeDictM == \E d \in MergeOperands : maps # <<>> /\ DoMergeDict(Len(maps), d)

MergeFrozenM == \E o \in 1..Len(maps) : DoMergeFrozen(Len(maps), o)

MergeMutableM == \E o \in 1..Len(maps) : DoMergeMutable(Len(maps), o)

FieldsM == \E m \in 1..Len(maps) : DoFields(m)

FrozenKeys == {"a", "q"}

SetItemM == \E m \in 1..Len(maps) : \E k \in FrozenKeys : DoSetItem(m, k, IntC(5))

DelItemM == \E m \in 1..Len(maps) : \E k \in FrozenKeys : DoDelItem(m, k)

CopyM == \E m \in 1..Len(maps) : DoCopy(m)

NextMaps ==
    \/ FieldsM
    \/ ConstructM
    \/ MergeDictM
    \/ MergeFrozenM
    \/ MergeMutableM
    \/ SetItemM
    \/ DelItemM
    \/ CopyM

SpecMaps == Init /\ [][NextMaps]_vars


(***************************************************************************)
(* Lazy values built with cache tiers, as the class's doctest builds them, *)
(* over tiers that may already hold the result of square(x=2).             *)
(***************************************************************************)
XDep(v) == <<[name |-> "x", v |-> v]>>

SquareId == HId(HMul(ContentHosh(IntC(2)), F2Hosh("square")))

CacheChains == {<<1>>, <<1, 2>>}

Shapes ==
    {[f |-> "square", i |-> 0, n |-> 1], [f |-> "mkmap", i |-> 0, n |-> 1],
     [f |-> "pair", i |-> 0, n |-> 2], [f |-> "pair", i |-> 1, n |-> 2]}

InitCache ==
    /\ maps = <<>>
    /\ nodes = <<>>
    /\ slots = <<>>
    /\ tiers \in {[t \in TierIds |-> {}],
                 [t \in TierIds |-> IF t = 2 THEN {[id |-> SquareId, val |-> IntC(4)]} ELSE {}]}
    /\ calls = <<>>
    /\ scans = <<>>
    /\ last = NoOp
    /\ threads = <<>>
    /\ idicts = <<>>

\* A new node over a new result dict, or over the result dict of the node
\* made last when it is the same call.
NewLazyC ==
    \E sh \in Shapes, ch \in CacheChains, slot \in 1..(Len(slots) + 1) :
        /\ slot <= Len(slots) =>
              /\ nodes # <<>>
              /\ slot = nodes[Len(nodes)].slot
              /\ nodes[Len(nodes)].f = sh.f
        /\ DoNewLazy(sh.f, sh.i, sh.n, XDep(StrictOf(IntC(2))), slot, TRUE, ch)

ReadNodeC == \E j \in 1..Len(nodes) : DoReadNode(j)

NextCache ==
    \/ NewLazyC
    \/ ReadNodeC

SpecCache == InitCache /\ [][NextCache]_vars


(***************************************************************************)
(* Lazy values of cat(x, y) over two exploded lists, xs:*x and ys:*y, of   *)
(* any two lengths, and of square(x) over one, with one cache tier.        *)
(***************************************************************************)
ExplodedLists == {ListC(<<>>), ListC(<<IntC(1)>>), ListC(<<IntC(1), IntC(2)>>)}

XYDeps(xs, ys) == <<[name |-> "xs:*x", v |-> StrictOf(xs)], [name |-> "ys:*y", v |-> StrictOf(ys)]>>

NewLazyX2 ==
    \E xs \in ExplodedLists, ys \in ExplodedLists :
        DoNewLazy("cat", 0, 1, XYDeps(xs, ys), Len(slots) + 1, TRUE, <<1>>)

NewLazyX1 ==
    \E xs \in ExplodedLists \cup {IntC(2)} :
        DoNewLazy("square", 0, 1, <<[name |-> "xs:*x", v |-> StrictOf(xs)]>>, Len(slots) + 1, TRUE, <<1>>)

ReadNodeX == \E j \in 1..Len(nodes) : DoReadNode(j)

NextExplode ==
    \/ NewLazyX2
    \/ NewLazyX1
    \/ ReadNodeX

SpecExplode == InitCache /\ [][NextExplode]_vars


(***************************************************************************)
(* Lets of one or two inputs, plain or sampled ("~x"), with defaults of    *)
(* several types given or not.                                             *)
(***************************************************************************)
LetItems ==
    {[src |-> "x", tgt |-> "x", sampled |-> FALSE], [src |-> "x", tgt |-> "x", sampled |-> TRUE],
     [src |-> "q", tgt |-> "x", sampled |-> TRUE], [src |-> "q", tgt |-> "y", sampled |-> FALSE],
     [src |-> "q", tgt |-> "y", sampled |-> TRUE]}

LetInputSpecs == {<<a>> : a \in LetItems} \cup {<<a, b>> : a \in LetItems, b \in LetItems}

Defaults == {IntC(3), NoneC, ListC(<<IntC(1), IntC(2)>>), TupleC(<<IntC(1), IntC(2)>>)}

LetKwargs ==
    {<<>>} \cup {<<[k |-> n, c |-> c]>> : n \in {"x", "q"}, c \in Defaults}
           \cup {<<[k |-> "x", c |-> c], [k |-> "q", c |-> d]>> : c \in Defaults, d \in Defaults}

LetL == \E ins \in LetInputSpecs, kwargs \in LetKwargs : DoLet("cat", ins, <<"z">>, kwargs)

NextLet == LetL

SpecLet == Init /\ [][NextLet]_vars


(***************************************************************************)
(* Lazy values whose function raises or returns a sequence of the wrong    *)
(* length, next to one that returns a list of the right length.            *)
(***************************************************************************)
FailShapes ==
    {[f |-> "boom", i |-> 0, n |-> 1], [f |-> "pair", i |-> 0, n |-> 2],
     [f |-> "triple", i |-> 0, n |-> 2], [f |-> "triple", i |-> 1, n |-> 2],
     [f |-> "ttriple", i |-> 0, n |-> 2], [f |-> "ttriple", i |-> 1, n |-> 2]}

NewLazyF ==
    \E sh \in FailShapes, ch \in CacheChains, slot \in 1..(Len(slots) + 1) :
        /\ slot <= Len(slots) =>
              /\ nodes # <<>>
              /\ slot = nodes[Len(nodes)].slot
              /\ nodes[Len(nodes)].f = sh.f
        /\ DoNewLazy(sh.f, sh.i, sh.n, XDep(StrictOf(IntC(2))), slot, TRUE, ch)

ReadNodeF == \E j \in 1..Len(nodes) : DoReadNode(j)

NextFail ==
    \/ NewLazyF
    \/ ReadNodeF

SpecFail == Init /\ [][NextFail]_vars


(***************************************************************************)
(* Cache scans: lazy values over a strict or a lazy dependency, with       *)
(* chains that may hold a cache object that raises, over tiers that may    *)
(* already hold their identities.                                          *)
(***************************************************************************)
ScanChains == {<<1>>, <<1, 2>>, <<2, RaisesOnContains>>, <<RaisesOnGet, 1>>}

\* The id of square over the lazy square(x=2).
ChainedId ==
    HId(LazyiVal("square", 0, 1,
                 XDep(LazyRef(1, LazyiVal("square", 0, 1, XDep(StrictOf(IntC(2))), 1,
                                          F2Hosh("square"), FALSE, <<>>).hosh)),
                 2, F2Hosh("square"), FALSE, <<>>).hosh)

InitScan ==
    /\ maps = <<>>
    /\ nodes = <<>>
    /\ slots = <<>>
    /\ tiers \in {[t \in TierIds |-> {}],
                 [t \in TierIds |-> IF t = 2 THEN {[id |-> SquareId, val |-> IntC(4)],
                                                  [id |-> ChainedId, val |-> IntC(16)]}
                                            ELSE {}]}
    /\ calls = <<>>
    /\ scans = <<>>
    /\ last = NoOp
    /\ threads = <<>>
    /\ idicts = <<>>

\* A new node over x=2, or over the node made last.
NewLazyS ==
    \E ch \in ScanChains, lazydep \in BOOLEAN :
        /\ lazydep => nodes # <<>>
        /\ DoNewLazy("square", 0, 1,
                     IF lazydep THEN XDep(LazyRef(Len(nodes), nodes[Len(nodes)].hosh))
                                ELSE XDep(StrictOf(IntC(2))),
                     Len(slots) + 1, TRUE, ch)

ReadNodeS == \E j \in 1..Len(nodes) : DoReadNode(j)

NextScan ==
    \/ NewLazyS
    \/ ReadNodeS

SpecScan == InitScan /\ [][NextScan]_vars


(***************************************************************************)
(* Threads reading lazy values that share a result dict or not.            *)
(***************************************************************************)
ThreadShapes ==
    {[f |-> "square", i |-> 0, n |-> 1], [f |-> "pair", i |-> 0, n |-> 2],
     [f |-> "pair", i |-> 1, n |-> 2]}

NewLazyT ==
    \E sh \in ThreadShapes, slot \in 1..(Len(slots) + 1) :
        /\ threads = <<>>
        /\ slot <= Len(slots) =>
              /\ nodes # <<>>
              /\ slot = nodes[Len(nodes)].slot
              /\ nodes[Len(nodes)].f = sh.f
              /\ nodes[Len(nodes)].i # sh.i
        /\ DoNewLazy(sh.f, sh.i, sh.n, XDep(StrictOf(IntC(2))), slot, FALSE, <<>>)

StartValueT == \E j \in 1..Len(nodes) : DoStartValue(j)

TestEvaluatedT == \E t \in 1..Len(threads) : DoTestEvaluated(t)

CallT == \E t \in 1..Len(threads) : DoCall(t)

AssignT == \E t \in 1..Len(threads) : DoAssign(t)

ReturnT == \E t \in 1..Len(threads) : DoReturn(t)

NextThreads ==
    \/ NewLazyT
    \/ StartValueT
    \/ TestEvaluatedT
    \/ CallT
    \/ AssignT
    \/ ReturnT

SpecThreads == Init /\ [][NextThreads]_vars


(***************************************************************************)
(* Lazy values that are read and replaced.                                 *)
(***************************************************************************)
\* A new node over a new result dict.
NewLazyP ==
    \E sh \in Shapes, ch \in CacheChains :
        DoNewLazy(sh.f, sh.i, sh.n, XDep(StrictOf(IntC(2))), Len(slots) + 1, TRUE, ch)

ReplaceP == \E j \in 1..Len(nodes), ch \in CacheChains : DoReplace(j, ch)

NextReplace ==
    \/ NewLazyP
    \/ ReadNodeC
    \/ ReplaceP

SpecReplace == InitCache /\ [][NextReplace]_vars


(***************************************************************************)
(* Lazy values made with a chain or with none, given new chains by         *)
(* withcaches, and read.                                                   *)
(***************************************************************************)
NewLazyN ==
    \E sh \in Shapes : DoNewLazy(sh.f, sh.i, sh.n, XDep(StrictOf(IntC(2))), Len(slots) + 1, FALSE, <<>>)

WithCachesW == \E j \in 1..Len(nodes), ch \in CacheChains : DoWithCaches(j, ch)

NextWithCaches ==
    \/ NewLazyP
    \/ NewLazyN
    \/ ReadNodeC
    \/ WithCachesW

SpecWithCaches == InitCache /\ [][NextWithCaches]_vars


(***************************************************************************)
(* Binds of one function of two parameters, cat(x, y) = 10 * x + y, that   *)
(* route the fields a and b to its parameters one way or the other.        *)
(***************************************************************************)
LetRouted(tgta, tgtb) ==
    [LetOf("cat", "a", <<"r">>) EXCEPT !.input = <<[src |-> "a", tgt |-> tgta],
                                                  [src |-> "b", tgt |-> tgtb]>>]

RoutedLets == {LetRouted("x", "y"), LetRouted("y", "x")}

RoutedDicts ==
    {<<Entry("a", Plain(IntC(1))), Entry("b", Plain(IntC(2)))>>,
     <<Entry("a", Plain(IntC(2))), Entry("b", Plain(IntC(1)))>>,
     <<Entry("b", Plain(IntC(2))), Entry("a", Plain(IntC(1)))>>}

ConstructW == \E d \in RoutedDicts : maps = <<>> /\ DoConstruct(d, <<>>)

BindW == \E m \in 1..Len(maps), let \in RoutedLets : DoBind(m, let, 1)

ReadW == \E m \in 1..Len(maps) : \E j \in 1..Len(maps[m].keys) : DoRead(m, maps[m].keys[j])

NextRouted ==
    \/ ConstructW
    \/ BindW
    \/ ReadW

SpecRouted == Init /\ [][NextRouted]_vars


(***************************************************************************)
(* Every way of making a map: the constructor, fromdict, merge, bind and   *)
(* the attachment of caches, over fields and metafields.                   *)
(***************************************************************************)
BuildDicts ==
    {<<Entry("x", Plain(IntC(2)))>>,
     <<Entry("x", Plain(IntC(2))), Entry("_m", Plain(IntC(1)))>>,
     <<Entry("_m", Plain(IntC(1))), Entry("a", Plain(IntC(1)))>>}

\* ids for fromdict: an identity for x and _m, or for a alone.
BuildIds ==
    {<<[k |-> "x", h |-> ContentHosh(IntC(7))], [k |-> "_m", h |-> ContentHosh(IntC(8))]>>,
     <<[k |-> "a", h |-> ContentHosh(IntC(9))]>>}

BuildMerges == {<<Entry("_n", Plain(IntC(3)))>>, <<Entry("x", Plain(IntC(3)))>>}

ConstructB == \E d \in BuildDicts : maps = <<>> /\ DoConstruct(d, <<>>)

FromDictB == \E d \in BuildDicts, ids \in BuildIds : maps = <<>> /\ DoFromDict(d, ids)

MergeDictB == \E d \in BuildMerges : maps # <<>> /\ DoMergeDict(Len(maps), d)

BindB == maps # <<>> /\ DoBind(Len(maps), LetOf("square", "x", <<"y">>), 1)

AttachCachesB == \E other \in CacheLists : maps # <<>> /\ DoAttachCaches(Len(maps), other)

EvaluateB == \E m \in 1..Len(maps) : DoEvaluate(m)

NextBuild ==
    \/ ConstructB
    \/ FromDictB
    \/ MergeDictB
    \/ BindB
    \/ AttachCachesB
    \/ EvaluateB

SpecBuild == Init /\ [][NextBuild]_vars


(***************************************************************************)
(* Binds of functions that return a list or a dict, to one output and to   *)
(* two, whose outputs are read in any order.                               *)
(***************************************************************************)
OutputLets ==
    {LetOf("pair", "x", <<"y", "z">>), LetOf("dpair", "x", <<"y", "z">>),
     LetOf("npair", "x", <<"y", "z">>), LetOf("pair", "x", <<"y">>), LetOf("dpair", "x", <<"y">>),
     LetOf("square", "x", <<"y">>)}

ConstructO == maps = <<>> /\ DoConstruct(<<Entry("x", Plain(IntC(2)))>>, <<>>)

BindO == \E let \in OutputLets : maps # <<>> /\ DoBind(Len(maps), let, 1)

ReadO == \E m \in 1..Len(maps) : \E j \in 1..Len(maps[m].keys) : DoRead(m, maps[m].keys[j])

NextOutputs ==
    \/ ConstructO
    \/ BindO
    \/ ReadO

SpecOutputs == Init /\ [][NextOutputs]_vars


(***************************************************************************)
(* Round trips: maps are constructed, merged and bound, their entries are  *)
(* read and their asdict is taken.                                         *)
(***************************************************************************)
RoundLets == {LetOf("square", "x", <<"y">>), LetOf("pair", "x", <<"y", "z">>)}

ConstructR == \E d \in LazyDicts : maps = <<>> /\ DoConstruct(d, <<>>)

MergeDictR == \E d \in LazyMerges : maps # <<>> /\ DoMergeDict(Len(maps), d)

BindR == \E let \in RoundLets : maps # <<>> /\ DoBind(Len(maps), let, 1)

ReadR == \E m \in 1..Len(maps) : \E j \in 1..Len(maps[m].keys) : DoRead(m, maps[m].keys[j])

AsDictR == \E m \in 1..Len(maps) : DoAsDict(m)

NextRound ==
    \/ ConstructR
    \/ MergeDictR
    \/ BindR
    \/ ReadR
    \/ AsDictR

SpecRound == Init /\ [][NextRound]_vars

(***************************************************************************)
(* Wrappers over maps with fields, metafields and lazy values.             *)
(***************************************************************************)
ConstructI == \E d \in BuildDicts : maps = <<>> /\ DoConstruct(d, <<>>)

BindI == \E let \in RoundLets : maps # <<>> /\ DoBind(Len(maps), let, 1)

UnfrozenI == \E m \in 1..Len(maps) : idicts = <<>> /\ DoUnfrozen(m)

IdictGetI == \E w \in 1..Len(idicts), acc \in Accessors, key \in {"x", "_id", "q"} :
                (acc # "contains" => key = "x") /\ DoIdictGet(w, acc, key)

IdictEvaluateI == \E w \in 1..Len(idicts) : DoIdictEvaluate(w)

NextIdict ==
    \/ ConstructI
    \/ BindI
    \/ UnfrozenI
    \/ IdictGetI
    \/ IdictEvaluateI

SpecIdict == Init /\ [][NextIdict]_vars


(***************************************************************************)
(* Equality with plain dicts, between reads, evaluation and asdict.        *)
(***************************************************************************)
EqDicts ==
    {<<Entry("a", Plain(IntC(1))), Entry("b", Plain(IntC(2)))>>,
     <<Entry("a", Plain(IntC(1))), Entry("_m", Plain(IntC(3)))>>,
     <<Entry("x", Plain(IntC(2)))>>}

EqOthers ==
    {<<Entry("a", Plain(IntC(1))), Entry("b", Plain(IntC(2)))>>,
     <<Entry("b", Plain(IntC(2))), Entry("a", Plain(IntC(1)))>>,
     <<Entry("a", Plain(IntC(1))), Entry("b", Plain(IntC(3)))>>,
     <<Entry("a", Plain(IntC(1)))>>,
     <<Entry("x", Plain(IntC(2))), Entry("y", Plain(IntC(4)))>>,
     <<Entry("_id", Plain(IdsC(Construct(<<Entry("x", Plain(IntC(2)))>>, <<>>).map.hosh)))>>}

ConstructE == \E d \in EqDicts : maps = <<>> /\ DoConstruct(d, <<>>)

BindE == maps # <<>> /\ DoBind(Len(maps), LetOf("square", "x", <<"y">>), 1)

ReadE == \E m \in 1..Len(maps) : \E j \in 1..Len(maps[m].keys) : DoRead(m, maps[m].keys[j])

EvaluateE == \E m \in 1..Len(maps) : DoEvaluate(m)

AsDictE == \E m \in 1..Len(maps) : DoAsDict(m)

EqE == \E m \in 1..Len(maps) : \E other \in EqOthers : DoEq(m, other)

NextEq ==
    \/ ConstructE
    \/ BindE
    \/ ReadE
    \/ EvaluateE
    \/ AsDictE
    \/ EqE

SpecEq == Init /\ [][NextEq]_vars

(***************************************************************************)
(* Properties.                                                             *)
(***************************************************************************)
KeySet(es) == {es[j].k : j \in 1..Len(es)}

MapKeySet(m) == {m.keys[j] : j \in 1..Len(m.keys)}

Perms(es) == {[j \in 1..Len(es) |-> es[p[j]]] : p \in Permutations(1..Len(es))}

\* An entry whose value is a strict value identified by the hash of its content.
PlainStrict(v) == ~v.lazy /\ v.hosh = ContentHosh(v.c)

AllPlainStrict(m) == \A j \in 1..Len(m.vals) : PlainStrict(m.vals[j])

\* C1: a map built by the constructor has the _id and, for every key, the
\* _ids[k] of the map the constructor builds from the same entries in any
\* other insertion order; and two maps of the heap that hold the same
\* key-to-value pairs have the same _id.
C1_OrderIndependent ==
    /\ (last.op = "Construct" /\ last.ok) =>
          LET data == DictUpdate(last.dict, last.kwargs)
              m == maps[last.r]
          IN \A p \in Perms(data) :
                LET r == Construct(p, <<>>)
                IN /\ r.ok
                   /\ MapId(r.map) = MapId(m)
                   /\ \A k \in KeySet(data) : IdOf(r.map, k) = IdOf(m, k)
    /\ \A i, j \in 1..Len(maps) :
          {<<maps[i].keys[q], maps[i].vals[q]>> : q \in 1..Len(maps[i].keys)}
             = {<<maps[j].keys[q], maps[j].vals[q]>> : q \in 1..Len(maps[j].keys)}
          => MapId(maps[i]) = MapId(maps[j])

\* A map was built from three entries, a metafield among them, two of them fields.
C1_Witness ==
    /\ last.op = "Construct"
    /\ last.ok
    /\ Len(maps[last.r].keys) = 3
    /\ "_m" \in MapKeySet(maps[last.r])
    /\ maps[last.r].keys[1] = "b"

SuppliesReserved(op) == KeySet(op.dict) \cap Reserved # {} \/ KeySet(op.kwargs) \cap Reserved # {}

\* C9: a constructor call whose dictionary or keyword entries hold "_id" or
\* "_ids" fails with no entry wrapped, no identity folded and no map made.
C9_ReservedKeyFails ==
    [][(last'.op = "Construct" /\ SuppliesReserved(last'))
          => (~last'.ok /\ last'.wrapped = 0 /\ last'.combined = 0 /\ last'.r = 0 /\ maps' = maps)]_vars

\* The constructor refused a reserved keyword entry given along with a
\* dictionary of two ordinary entries.
C9_Witness ==
    /\ last.op = "Construct"
    /\ ~last.ok
    /\ Len(last.dict) = 2
    /\ KeySet(last.dict) \cap Reserved = {}
    /\ KeySet(last.kwargs) = {"_ids"}

\* C8: a merge whose right operand is a FrozenIdict or an Idict returns a
\* new map that holds the union of the entries, the right operand's values
\* under the keys both have.
C8_MergeAcceptsMaps ==
    (last.op \in {"MergeFrozen", "MergeMutable"}) =>
        /\ last.ok
        /\ last.r = Len(maps)
        /\ MapKeySet(maps[last.r]) = MapKeySet(maps[last.m]) \cup KeySet(last.other)
        /\ \A j \in 1..Len(last.other) :
              ValOf(maps[last.r], last.other[j].k) = last.other[j].raw.v


WithoutIds(es) == SelectSeq(es, LAMBDA e : e.k \notin Reserved)

\* The entries a merge of L with the dictionary d must produce in R.
MergedFields(L, d, R) ==
    /\ MapKeySet(R) = MapKeySet(L) \cup KeySet(d)
    /\ \A j \in 1..Len(d) : ValOf(R, d[j].k) = Wrap(d[j].raw)
    /\ \A k \in MapKeySet(L) \ KeySet(d) : ValOf(R, k) = ValOf(L, k)

\* The map the constructor builds from the key-to-content pairs of m alone.
FromContents(m) ==
    Construct([j \in 1..Len(m.keys) |->
                  Entry(m.keys[j], Plain(ValueOf(nodes, Engine, m.vals[j]).val))], <<>>)

\* C7 as stated: a merge with a dictionary returns a new map holding the
\* union of the entries, the dictionary's contents under shared keys, and
\* the _id of the result is the _id of the map constructed from the
\* resulting key-to-content pairs.
C7_MergeIdOfContents ==
    (last.op = "MergeDict" /\ last.ok) =>
        /\ MergedFields(maps[last.m], last.other, maps[last.r])
        /\ MapId(maps[last.r]) = MapId(FromContents(maps[last.r]).map)

\* C7 amended: the same, for a result whose entries are all strict values
\* identified by the hash of their content.
C7_MergePlain ==
    (last.op = "MergeDict" /\ last.ok) =>
        /\ last.r = Len(maps)
        /\ last.m # last.r
        /\ MergedFields(maps[last.m], last.other, maps[last.r])
        /\ AllPlainStrict(maps[last.r]) =>
              MapId(maps[last.r]) = MapId(FromContents(maps[last.r]).map)

\* {a: 1, b: 2} was merged with {b: 3}.
C7_Witness ==
    /\ last.op = "MergeDict"
    /\ last.ok
    /\ AllPlainStrict(maps[last.r])
    /\ DataOf(maps[last.m]) = <<Entry("a", IVal(StrictOf(IntC(1)))), Entry("b", IVal(StrictOf(IntC(2))))>>
    /\ last.other = <<Entry("b", Plain(IntC(3)))>>
    /\ ContentOf(nodes, slots, ValOf(maps[last.r], "b")) = IntC(3)

\* C6 as stated: for a map whose entries are all evaluated, the constructor
\* applied to asdict without "_id" and "_ids" gives a map of the same _id.
C6_RoundTrip ==
    (last.op = "AsDict" /\ last.ok /\ AllEvaluated(nodes, slots, maps[last.m])) =>
        LET r == Construct(WithoutIds(last.other), <<>>)
        IN r.ok /\ MapId(r.map) = MapId(maps[last.m])

\* C6 amended: the same, for a map whose entries are all strict values
\* identified by the hash of their content.
C6_RoundTripPlain ==
    (last.op = "AsDict" /\ AllPlainStrict(maps[last.m])) =>
        LET r == Construct(WithoutIds(last.other), <<>>)
        IN /\ last.ok
           /\ r.ok
           /\ MapId(r.map) = MapId(maps[last.m])
           /\ r.map.ids = maps[last.m].ids

\* asdict was taken of a map of three strict entries made by a merge.
C6_Witness ==
    /\ last.op = "AsDict"
    /\ AllPlainStrict(maps[last.m])
    /\ Len(maps[last.m].keys) = 3
    /\ Len(last.other) = 5
    /\ last.m > 1

\* What the function of node j returns for output i on its dependencies' contents.
ExpectedOutput(j) ==
    LET d == EvalDeps(nodes, Engine, nodes[j].deps, 1, <<>>)
        r == Apply(nodes[j].f, d.kw)
    IN IF nodes[j].n = 1 THEN r.val ELSE r.val.items[nodes[j].i + 1]

\* Every output field of the map the last bind returned is an unevaluated
\* lazy value whose function has not been invoked.
BindOutputsFresh ==
    \A q \in 1..Len(last.out) :
        LET v == ValOf(maps[last.r], last.out[q])
        IN /\ HasField(maps[last.r], last.out[q])
           /\ v.lazy
           /\ ~IsEvaluated(nodes, slots, v)
           /\ calls[nodes[v.node].slot] = 0

\* C10: after a bind every output field of the returned map is unevaluated;
\* only a read (of one value, or of all by evaluate) invokes a function;
\* the read of an output whose function was never invoked invokes it once
\* and returns the function's result on the dependencies' contents.
C10_LazyUntilRead ==
    [][/\ (last'.op = "Bind" /\ last'.ok) => BindOutputsFresh'
       /\ (\E s \in 1..Len(calls') : calls'[s] > 0 /\ (s > Len(calls) \/ calls'[s] # calls[s]))
             => last'.op \in {"Read", "Evaluate"}
       /\ (last'.op = "Read" /\ last'.ok /\ last'.node > 0 /\ calls[nodes[last'.node].slot] = 0)
             => /\ calls'[nodes[last'.node].slot] = 1
                /\ last'.val = ExpectedOutput(last'.node)]_vars

\* {x: 2} was bound with square from x to y, and the read of y returned 4
\* after one invocation.
C10_Witness ==
    /\ last.op = "Read"
    /\ last.k = "y"
    /\ last.val = IntC(4)
    /\ DataOf(maps[1]) = <<Entry("x", IVal(StrictOf(IntC(2))))>>
    /\ Len(nodes) = 1
    /\ nodes[1].f = "square"
    /\ calls = <<1>>

\* C2: a read of a lazy value that follows a successful read of the same
\* value invokes no function, scans no cache tier and returns the same
\* content, whatever the function returned (None included).
C2_InvokedOnce ==
    [][(last.op = "Read" /\ last.ok /\ last.node > 0 /\ last'.op = "Read" /\ last'.node = last.node)
          => (calls' = calls /\ scans' = scans /\ last'.ok /\ last'.val = last.val)]_vars

\* C3: the read of an output that follows a successful read of a sibling
\* output of the same function call invokes no function and returns the
\* element of the function's return value at its own position.
C3_SiblingsInvokeOnce ==
    [][(/\ last.op = "Read" /\ last.ok /\ last.node > 0
        /\ last'.op = "Read" /\ last'.node > 0 /\ last'.node # last.node
        /\ nodes[last'.node].slot = nodes[last.node].slot)
          => (calls' = calls /\ last'.ok /\ last'.val = ExpectedOutput(last'.node))]_vars

\* Position of the first tier of the chain of node j that holds its identity.
FirstHit(j, k) ==
    /\ k \in 1..Len(nodes[j].caches)
    /\ TierHas(tiers[nodes[j].caches[k]], HId(nodes[j].hosh))
    /\ \A p \in 1..(k - 1) : ~TierHas(tiers[nodes[j].caches[p]], HId(nodes[j].hosh))

Unevaluated(j) == SlotGet(slots[nodes[j].slot], HId(nodes[j].hosh)) = NoneC

\* C4: the first read of a lazy value whose identity the chain first holds
\* at tier k returns that tier's content without invoking the function and
\* leaves the identity mapped to that content in every tier before k.
C4_HitBackfills ==
    [][\A j \in 1..Len(nodes), k \in 1..MaxLen :
          (last'.op = "ReadNode" /\ last'.node = j /\ nodes[j].hascaches /\ Unevaluated(j) /\ FirstHit(j, k))
             => LET id == HId(nodes[j].hosh)
                    val == TierGet(tiers[nodes[j].caches[k]], id)
                IN /\ last'.ok
                   /\ last'.val = val
                   /\ calls' = calls
                   /\ \A p \in 1..(k - 1) :
                         /\ TierHas(tiers'[nodes[j].caches[p]], id)
                         /\ TierGet(tiers'[nodes[j].caches[p]], id) = val]_vars

\* A value attached to tiers 1 and 2 was read with only tier 2 holding its
\* identity, then a value of the same identity attached to tier 1 alone was
\* read; no function was invoked.
C4_Witness ==
    /\ last.op = "ReadNode"
    /\ Len(nodes) = 2
    /\ nodes[1].caches = <<1, 2>>
    /\ nodes[2].caches = <<1>>
    /\ nodes[1].hascaches /\ nodes[2].hascaches
    /\ nodes[1].hosh = nodes[2].hosh
    /\ nodes[1].slot # nodes[2].slot
    /\ ~Unevaluated(1) /\ ~Unevaluated(2)
    /\ last.node = 2
    /\ last.val = IntC(4)
    /\ \A s \in 1..Len(calls) : calls[s] = 0

\* C5: after the first read of a lazy value with tiers attached, none of
\* which held its identity, every tier maps the identity of every output
\* of the call to its content, a nested map included.
C5_StoreAllTiers ==
    [][\A j \in 1..Len(nodes) :
          (/\ last'.op = "ReadNode" /\ last'.node = j /\ last'.ok
           /\ nodes[j].hascaches /\ Unevaluated(j)
           /\ \A k \in 1..Len(nodes[j].caches) : ~FirstHit(j, k))
             => \A c \in 1..Len(nodes[j].caches), p \in 1..Len(slots'[nodes[j].slot]) :
                   LET e == slots'[nodes[j].slot][p]
                   IN /\ TierHas(tiers'[nodes[j].caches[c]], e.id)
                      /\ TierGet(tiers'[nodes[j].caches[c]], e.id) = e.val]_vars


\* The identities of the dependencies of node j, in order.
DepIds(j) == [k \in 1..Len(nodes[j].deps) |-> nodes[j].deps[k].v.hosh]

SameInputs(a, b) ==
    /\ DepIds(a) = DepIds(b)
    /\ nodes[a].fhosh = nodes[b].fhosh
    /\ nodes[a].i = nodes[b].i
    /\ nodes[a].n = nodes[b].n

\* Two lazy values built from equal dependency identities, function
\* identity, i and n have equal identities, and every map entry that refers
\* to a lazy value carries that identity.
LazyIdsAgree ==
    /\ \A a, b \in 1..Len(nodes) : SameInputs(a, b) => nodes[a].hosh = nodes[b].hosh
    /\ \A m \in 1..Len(maps) : \A q \in 1..Len(maps[m].vals) :
          maps[m].vals[q].lazy => maps[m].vals[q].hosh = nodes[maps[m].vals[q].node].hosh

\* C11: the identity of a lazy value is a function of its dependencies'
\* identities in order, the function identity, i and n, and no step (a read
\* that evaluates the node or a dependency included) changes it.
C11_IdentityOfInputs ==
    [][/\ LazyIdsAgree'
       /\ \A a \in 1..Len(nodes) :
             /\ nodes'[a].hosh = nodes[a].hosh
             /\ nodes'[a].deps = nodes[a].deps]_vars

\* Two lazy values were bound with the same function over the same field in
\* two result dicts; the first has been evaluated, the second has not.
C11_Witness ==
    /\ Len(nodes) = 2
    /\ SameInputs(1, 2)
    /\ nodes[1].slot # nodes[2].slot
    /\ nodes[1].hosh = nodes[2].hosh
    /\ IsEvaluated(nodes, slots, LazyRef(1, nodes[1].hosh))
    /\ ~IsEvaluated(nodes, slots, LazyRef(2, nodes[2].hosh))
    /\ calls[nodes[1].slot] = 1


NonMeta(es) == SelectSeq(es, LAMBDA e : ~StartsWithUnderscore(e.k))

NonMetaPairs(m) ==
    {<<m.keys[q], m.vals[q]>> : q \in {p \in 1..Len(m.keys) : ~StartsWithUnderscore(m.keys[p])}}

SeqSet(q) == {q[j] : j \in 1..Len(q)}

\* q lists distinct keys of the map in the order the map holds them.
InMapOrder(q, m) ==
    /\ SeqSet(q) \subseteq MapKeySet(m)
    /\ \A a, b \in 1..Len(q) : a < b => FieldIndex(m, q[a]) < FieldIndex(m, q[b])

C14_IdsApartFromEvaluation ==
    [][/\ last'.op \in {"Read", "Evaluate"}
             => /\ Len(maps') = Len(maps)
                /\ \A m \in 1..Len(maps) :
                      maps'[m].hosh = maps[m].hosh /\ maps'[m].ids = maps[m].ids
       /\ (last'.op = "AttachCaches" /\ last'.ok)
             => /\ maps'[last'.r].hosh = maps[last'.m].hosh
                /\ maps'[last'.r].ids = maps[last'.m].ids
                /\ maps'[last'.r].keys = maps[last'.m].keys]_vars

\* A map whose lazy entry had been evaluated was given a list of caches and
\* the first tier received its contents.
C14_Witness ==
    /\ last.op = "AttachCaches"
    /\ last.ok
    /\ \E q \in 1..Len(maps[last.m].vals) : maps[last.m].vals[q].lazy
    /\ \E s \in 1..Len(calls) : calls[s] = 1
    /\ tiers[1] # {}

\* The contents a map's non-metadata entries evaluate to, as a set of pairs.
EvaluatedNonMeta(m) ==
    {<<maps[m].keys[j], ValueOf(nodes, Engine, maps[m].vals[j]).val>> :
        j \in {i \in 1..Len(maps[m].keys) : ~StartsWithUnderscore(maps[m].keys[i])}}

\* C15: a comparison of a map with a plain dict that has no "_id" key
\* completes and answers whether the dict's entries are exactly the map's
\* evaluated non-metadata entries, in whatever order the dict lists them; a
\* dict with an "_id" key compares equal exactly when that is the map's id.
C15_EqualsPlainMapping ==
    last.op = "Eq" =>
        /\ last.ok
        /\ last.res =
              IF HasKey(last.other, "_id")
              THEN last.other[IndexOf(last.other, "_id")].raw.c = IdsC(maps[last.m].hosh)
              ELSE {<<last.other[j].k, last.other[j].raw.c>> : j \in 1..Len(last.other)}
                     = EvaluatedNonMeta(last.m)

\* C16: a map's cached asdict, once computed, holds every entry and "_id"
\* and "_ids", and an equality comparison never fails.
C16_AsDictKeeps ==
    /\ \A m \in 1..Len(maps) :
           maps[m].cached =>
               [j \in 1..Len(maps[m].asdict) |-> maps[m].asdict[j].k] = DataKeys(maps[m])
    /\ (last.op = "Eq" => last.ok)

\* C17: setting an entry, deleting an entry and copy() fail, for a key the
\* map holds and for one it does not, and every map is afterwards what it
\* was before.
C17_FrozenNeverMutated ==
    [][last'.op \in {"SetItem", "DelItem", "Copy"} => ~last'.ok /\ maps' = maps]_vars

C17_Witness ==
    /\ last.op = "SetItem" /\ ~last.ok /\ last.k = "q"
    /\ MapKeySet(maps[last.m]) = {"a", "b"}

\* C18: a merge, a bind and an attachment of cache tiers leave every map
\* that existed, with its keys in order, its ids and the values its keys
\* are bound to, as it was; a success adds one new map and a failure adds
\* none.
C18_SourceUnchanged ==
    [][last'.op \in {"MergeDict", "Bind", "AttachCaches"} =>
          /\ \A m \in 1..Len(maps) : maps'[m] = maps[m]
          /\ \A j \in 1..Len(nodes) : nodes'[j] = nodes[j]
          /\ \A p \in 1..Len(slots) : slots'[p] = slots[p]
          /\ IF last'.ok THEN Len(maps') = Len(maps) + 1 /\ last'.r = Len(maps')
                         ELSE maps' = maps]_vars

C18_Witness ==
    /\ last.op = "AttachCaches" /\ ~last.ok
    /\ maps[last.m].keys # <<>>
    /\ \E m \in 1..Len(maps) : m # last.m

\* What the function of node j returns for the node's dependencies.
ReturnOf(j) == Apply(nodes[j].f, EvalDeps(nodes, Engine, nodes[j].deps, 1, <<>>).kw)

\* The function of node j raises, or returns what normalization rejects.
Fails(j) == ~ReturnOf(j).ok \/ ~Normalize(ReturnOf(j).val, nodes[j].n).ok

\* C19: the read of a node whose function raises, or whose result fails
\* normalization, fails, and the function of a failed call has been invoked
\* once however many reads of its outputs followed.
C19_NoRetryOnFailure ==
    /\ (last.op = "ReadNode" /\ Fails(last.node)) => ~last.ok
    /\ \A j \in 1..Len(nodes) : Fails(j) => calls[nodes[j].slot] <= 1

\* A list or tuple whose length is not the number of outputs of node j.
WrongLength(j) ==
    /\ nodes[j].n > 1
    /\ ReturnOf(j).ok
    /\ ReturnOf(j).val.t \in {"list", "tuple"}
    /\ Len(ReturnOf(j).val.items) # nodes[j].n

\* C20: the read of an output of a function that returned a list or a tuple
\* of the wrong length fails, the result dict of the call holds no content
\* and no tier holds an entry under the id of one of its outputs.
C20_ArityError ==
    \A j \in 1..Len(nodes) :
        (last.op = "ReadNode" /\ last.node = j /\ WrongLength(j)) =>
            /\ ~last.ok
            /\ \A p \in 1..Len(slots[nodes[j].slot]) :
                   /\ slots[nodes[j].slot][p].val = NoneC
                   /\ \A t \in TierIds : ~TierHas(tiers[t], slots[nodes[j].slot][p].id)

\* C21: the read of a node whose chain holds a cache object that raises on
\* the containment test or on the get does not fail.
C21_RaisingTierIsMiss ==
    (/\ last.op = "ReadNode"
     /\ \E k \in 1..Len(nodes[last.node].caches) : nodes[last.node].caches[k] \in RaisingTiers)
        => last.ok

\* The position of the tier of node j's chain that first holds its id.
HitAt(j) == ScanFrom(tiers, nodes[j].caches, HId(nodes[j].hosh), 1)

\* C30: the first read of a node whose id the chain first holds at tier k
\* returns that tier's content, invokes no function, tests k tiers of its
\* chain and none of any other node, writes no other result dict and
\* leaves every tier that is not before the hit as it was.
C30_HitTouchesNothingElse ==
    [][\A j \in 1..Len(nodes) :
          (/\ last'.op = "ReadNode" /\ last'.node = j
           /\ nodes[j].hascaches /\ Unevaluated(j) /\ HitAt(j) > 0)
             => LET k == HitAt(j)
                IN /\ last'.ok
                   /\ last'.val = TierGet(tiers[nodes[j].caches[k]], HId(nodes[j].hosh))
                   /\ calls' = calls
                   /\ scans' = [scans EXCEPT ![j] = @ + k]
                   /\ \A p \in 1..Len(slots) : p # nodes[j].slot => slots'[p] = slots[p]
                   /\ \A t \in 1..Len(tiers) :
                          (\A q \in 1..(k - 1) : nodes[j].caches[q] # t) => tiers'[t] = tiers[t]]_vars

C30_Witness ==
    /\ last.op = "ReadNode" /\ last.ok /\ last.val = IntC(16)
    /\ nodes[last.node].deps[1].v.lazy
    /\ nodes[last.node].caches = <<2, RaisesOnContains>>
    /\ \A p \in 1..Len(calls) : calls[p] = 0

\* C22: however the reads of threads interleave, the function of a result
\* dict has been invoked at most once, and a read that has returned has
\* returned the content the result dict holds for its node.
C22_ConcurrentFirstRead ==
    /\ \A p \in 1..Len(calls) : calls[p] <= 1
    /\ \A t \in 1..Len(threads) :
           threads[t].pc = "done" =>
               threads[t].val = SlotGet(slots[nodes[threads[t].node].slot],
                                        HId(nodes[threads[t].node].hosh))

\* C23: a lazy value that is evaluated is evaluated in the next state.
C23_EvaluatedForGood ==
    [][\A j \in 1..Len(nodes) : ~Unevaluated(j) => ~Unevaluated(j)']_vars

\* An input of the binding is neither an entry of m nor among the sampled
\* defaults nor among the literal defaults.
MissingInput(m, let) ==
    \E j \in 1..Len(let.input) :
        /\ let.input[j].src \notin MapKeySet(m)
        /\ ~HasPair(let.space, let.input[j].src)
        /\ ~HasPair(let.values, let.input[j].src)

\* C24: a bind with a missing input fails with the missing-field error,
\* invokes nothing and makes neither a map nor a node.
C24_MissingInputFails ==
    [][(last'.op = "Bind" /\ MissingInput(maps[last'.m], last'.let))
          => /\ ~last'.ok /\ last'.err = "MissingField"
             /\ calls' = calls /\ maps' = maps /\ nodes' = nodes /\ slots' = slots]_vars

\* The dependencies of node j as the set of parameter name and identity.
NamedDeps(j) == {<<nodes[j].deps[k].name, nodes[j].deps[k].v.hosh>> : k \in 1..Len(nodes[j].deps)}

\* C25: two lazy values of equal identity are the same function applied to
\* the same dependencies under the same parameter names, for the same
\* output.
C25_IdentityIsComputation ==
    \A i, j \in 1..Len(nodes) :
        nodes[i].hosh = nodes[j].hosh =>
            /\ nodes[i].fhosh = nodes[j].fhosh
            /\ nodes[i].i = nodes[j].i /\ nodes[i].n = nodes[j].n
            /\ NamedDeps(i) = NamedDeps(j)

C27_WrapperDelegates ==
    [][/\ last'.op = "IdictGet" =>
             LET f == idicts[last'.w].frozen
                 r == FrozenGet(nodes, Engine, maps[f], last'.acc, last'.k)
             IN /\ last'.ok = r.ok /\ last'.other = r.out
                /\ slots' = r.st.slots /\ calls' = r.st.calls /\ tiers' = r.st.tiers
                /\ maps' = [maps EXCEPT ![f] = r.map]
                /\ idicts' = idicts
       /\ last'.op = "IdictEvaluate" =>
             /\ idicts' = idicts /\ maps' = maps
             /\ last'.ok => AllEvaluated(nodes, slots', maps[idicts[last'.w].frozen])]_vars

C27_Witness ==
    /\ last.op = "IdictGet" /\ last.acc = "contains" /\ last.k = "_id" /\ last.other = <<TRUE>>
    /\ \E j \in 1..Len(maps[idicts[last.w].frozen].vals) : maps[idicts[last.w].frozen].vals[j].lazy

\* C28: the attachment of a list of caches to a map with an unevaluated
\* entry returns a new map with the same keys, in which every entry that
\* was unevaluated is a lazy value over the same result dict whose caches
\* are the tiers of the list in order.
C28_AttachToUnevaluated ==
    [][(/\ last'.op = "AttachCaches"
        /\ ~AllEvaluated(nodes, slots, maps[last'.m]))
          => /\ last'.ok
             /\ maps'[last'.r].keys = maps[last'.m].keys
             /\ \A j \in 1..Len(maps[last'.m].keys) :
                    LET old == maps[last'.m].vals[j]
                        new == maps'[last'.r].vals[j]
                    IN ~IsEvaluated(nodes, slots, old) =>
                          /\ new.lazy
                          /\ nodes'[new.node].hascaches
                          /\ nodes'[new.node].caches
                                = [q \in 1..Len(last'.other) |-> last'.other[q].tier]
                          /\ nodes'[new.node].slot = nodes[old.node].slot]_vars

\* The function of node j returns, for one output, anything, and for
\* several, a list or a dict of as many elements.
WellShaped(j) ==
    /\ ReturnOf(j).ok
    /\ \/ nodes[j].n = 1
       \/ ReturnOf(j).val.t \in {"list", "dict"} /\ Len(ReturnOf(j).val.items) = nodes[j].n

\* C29: the read of an output of a bound function returns the object the
\* function returned when it is the only output, and the element or the
\* dict value at the output's position otherwise, whichever outputs were
\* read before.
C29_OutputsByPosition ==
    (last.op = "Read" /\ last.node > 0 /\ WellShaped(last.node))
        => last.ok /\ last.val = ExpectedOutput(last.node)

C29_Witness ==
    /\ last.op = "Read" /\ last.node > 0 /\ last.ok
    /\ nodes[last.node].f = "dpair" /\ nodes[last.node].n = 2 /\ nodes[last.node].i = 1
    /\ last.val = IntC(6)

\* The lengths of the exploded sources of node j, in the order declared.
ExplodedLengths(j) ==
    LET srcs == SelectSeq(nodes[j].deps, LAMBDA d : IsExploded(d.name))
    IN [p \in 1..Len(srcs) |-> Len(srcs[p].v.c.items)]

\* C31: the read of a lazy value with two or more exploded sources of
\* different lengths fails, whichever source is the shortest, and leaves
\* its result unset and the cache tiers without its identity.
C31_LengthMismatchIsFatal ==
    (/\ last.op = "ReadNode"
     /\ Len(nodes[last.node].deps) >= 2
     /\ \A p \in 1..Len(nodes[last.node].deps) : IsIterable(nodes[last.node].deps[p].v.c)
     /\ \E p, q \in 1..Len(ExplodedLengths(last.node)) :
            ExplodedLengths(last.node)[p] # ExplodedLengths(last.node)[q])
        => /\ ~last.ok
           /\ ~IsEvaluated(nodes, slots, LazyRef(last.node, nodes[last.node].hosh))
           /\ \A t \in TierIds : ~TierHas(tiers[t], HId(nodes[last.node].hosh))

\* The sampled inputs of the Let asked for last all come with a default
\* that is iterable.
SampledHaveIterableDefaults ==
    \A j \in 1..Len(last.other) :
        last.other[j].sampled =>
            /\ HasPair(last.kwargs, last.other[j].src)
            /\ IsIterableDefault(PairOf(last.kwargs, last.other[j].src).c)

\* C32: a Let is constructed exactly when each of its sampled inputs has
\* a default that is iterable, and then holds that default in input_space
\* under the name without the prefix.
C32_SampledNeedsIterableDefault ==
    last.op = "Let" =>
        /\ last.ok <=> SampledHaveIterableDefaults
        /\ last.ok =>
              \A j \in 1..Len(last.other) :
                  last.other[j].sampled =>
                      /\ HasPair(last.let.space, last.other[j].src)
                      /\ PairOf(last.let.space, last.other[j].src).c
                            = PairOf(last.kwargs, last.other[j].src).c

\* Tier t is given as a one-element list in the list of caches other.
GivenNested(other, t) == \E j \in 1..Len(other) : other[j].tier = t /\ other[j].nested

\* C33: a list of caches given to a map writes, into every tier given as a
\* one-element list, the identity and content of every evaluated entry whose
\* identity the tier lacks, leaves the identities the tier holds as they
\* are, writes nothing into the other tiers and invokes no function.
C33_AttachWritesEvaluated ==
    [][last'.op = "AttachCaches" =>
          /\ calls' = calls
          /\ \A t \in TierIds :
                IF GivenNested(last'.other, t)
                THEN \A k \in 1..Len(maps[last'.m].keys) :
                        LET id == maps[last'.m].ids[k]
                            v == maps[last'.m].vals[k]
                        IN IsEvaluated(nodes, slots, v) =>
                              /\ TierHas(tiers'[t], id)
                              /\ TierGet(tiers'[t], id) =
                                    IF TierHas(tiers[t], id) THEN TierGet(tiers[t], id)
                                    ELSE ContentOf(nodes, slots, v)
                ELSE tiers'[t] = tiers[t]]_vars

\* C34: giving a value a list of caches leaves the chain of every value
\* there was as it is, and a read of any value completes and writes only
\* tiers of the chain that value was given.
C34_SourceChainsUntouched ==
    [][/\ last'.op = "WithCaches" =>
              \A j \in 1..Len(nodes) :
                  nodes'[j].hascaches = nodes[j].hascaches /\ nodes'[j].caches = nodes[j].caches
       /\ last'.op = "ReadNode" =>
              /\ last'.ok
              /\ \A t \in TierIds :
                    (\A q \in 1..Len(nodes[last'.node].caches) : nodes[last'.node].caches[q] # t)
                        => tiers'[t] = tiers[t]]_vars

\* C35: after a construction, failed or not, with keyword entries or
\* without, the dictionary the caller passed holds what it held.
C35_CallerDictUnchanged ==
    last.op = "Construct" => last.other = last.dict


(***************************************************************************)
(* FrozenIdict.__reduce__ and the rebuild pickling makes from it, over     *)
(* maps that were constructed, merged and bound.                           *)
(***************************************************************************)
\* return self.__class__, (self.data.copy(),): the argument tuple's dict
Reduce(m) == DataWithIds(m)

\* self.__class__(*args)
Rebuild(m) == Construct(Reduce(m), <<>>)

\* pickle.loads(pickle.dumps(maps[m])), apart from the byte encoding
DoRebuild(m) ==
    LET r == Rebuild(maps[m])
    IN /\ Len(maps) < MaxMaps
       /\ maps' = IF r.ok THEN Append(maps, r.map) ELSE maps
       /\ last' = [NoOp EXCEPT !.op = "Rebuild", !.ok = r.ok, !.err = r.err, !.m = m,
                               !.r = IF r.ok THEN Len(maps) + 1 ELSE 0]
       /\ UNCHANGED <<nodes, slots, tiers, calls, scans, threads, idicts>>

ConstructK == \E d \in LazyDicts : maps = <<>> /\ DoConstruct(d, <<>>)

MergeDictK == \E d \in LazyMerges : maps # <<>> /\ DoMergeDict(Len(maps), d)

BindK == \E let \in RoundLets : maps # <<>> /\ DoBind(Len(maps), let, 1)

ReadK == \E m \in 1..Len(maps) : \E j \in 1..Len(maps[m].keys) : DoRead(m, maps[m].keys[j])

RebuildK == \E m \in 1..Len(maps) : DoRebuild(m)

NextReduce ==
    \/ ConstructK
    \/ MergeDictK
    \/ BindK
    \/ ReadK
    \/ RebuildK

SpecReduce == Init /\ [][NextReduce]_vars

\* C36: the class applied to what __reduce__ returns gives a map with the
\* keys, the _id and the _ids of the map that was reduced.
C36_ReduceRebuilds ==
    last.op = "Rebuild" =>
        /\ last.ok
        /\ maps[last.r].keys = maps[last.m].keys
        /\ maps[last.r].hosh = maps[last.m].hosh
        /\ maps[last.r].ids = maps[last.m].ids
====
